---------------------------- MODULE Spec2Model ----------------------------
(***************************************************************************)
(* A model of the mail template Formatter of @ffsm/mailer                  *)
(* (src/packages/ffsmio-mailer/src/formatter.ts).                          *)
(*                                                                         *)
(* Text is a sequence of tokens.  A token is one character ("{", ".",      *)
(* "b", "0", ...) or one of the fixed words of AtomToks, which stands for  *)
(* the run of ordinary characters it spells: a word is matched by a        *)
(* literal or by a run such as [^:}]+, never by a one-character pattern    *)
(* ("." or a character class).  The single letters of the alphabet are     *)
(* chosen outside the letters of those words.  The alphabet has no "$",    *)
(* "\", "(", "+", "*", "?", "|", "^" and no line terminator, so the        *)
(* replacement patterns of String.replace and the other regular            *)
(* expression operators do not arise.                                      *)
(***************************************************************************)
EXTENDS Integers, Sequences, FiniteSets, TLC

(***************************************************************************)
(* Tokens                                                                  *)
(***************************************************************************)
AtomToks == {"@loop", "@endloop", "@component", "key", "value"}

Digits == {"0", "1", "2", "3", "4", "5", "6", "7", "8", "9"}

Letters == {"b", "f", "g", "h", "j", "q", "r", "s", "w", "x", "z"}

Punct == {"{", "}", ":", ".", "[", "]"}

\* The characters one "." of a regular expression matches.
Char1 == Digits \cup Letters \cup Punct

\* "\\[" and "\\]" are the escaped brackets of a pattern source.
EscToks == {"\\[", "\\]"}

(***************************************************************************)
(* Strings                                                                 *)
(***************************************************************************)
Min(a, b) == IF a <= b THEN a ELSE b

SubStr(s, i, j) == IF j < i THEN <<>> ELSE SubSeq(s, i, j)

\* String.prototype.startsWith, and a match of the text p at position i of s
OccursAt(s, p, i) ==
    /\ i >= 1
    /\ i + Len(p) - 1 <= Len(s)
    /\ \A k \in 1..Len(p) : s[i + k - 1] = p[k]

startsWith(s, p) == OccursAt(s, p, 1)

\* String.prototype.indexOf, 1-based, 0 when p does not occur from `from` on
indexOf(s, p, from) ==
    LET hits == {i \in from..(Len(s) - Len(p) + 1) : OccursAt(s, p, i)}
    IN  IF hits = {} THEN 0 ELSE CHOOSE i \in hits : \A k \in hits : i <= k

\* String.prototype.replace with a string pattern: the first occurrence only
replaceStr(s, p, rep) ==
    LET i == indexOf(s, p, 1)
    IN  IF i = 0 THEN s
        ELSE SubStr(s, 1, i - 1) \o rep \o SubStr(s, i + Len(p), Len(s))

\* String.prototype.split with a non-empty separator
RECURSIVE split(_, _)
split(s, sep) ==
    LET i == indexOf(s, sep, 1)
    IN  IF i = 0 THEN <<s>>
        ELSE <<SubStr(s, 1, i - 1)>> \o split(SubStr(s, i + Len(sep), Len(s)), sep)

\* Array.prototype.join
RECURSIVE join(_, _)
join(parts, sep) ==
    IF Len(parts) = 0 THEN <<>>
    ELSE IF Len(parts) = 1 THEN parts[1]
    ELSE parts[1] \o sep \o join(Tail(parts), sep)

\* the text of a sequence of texts, one after the other
RECURSIVE Concat(_)
Concat(parts) == IF parts = <<>> THEN <<>> ELSE Head(parts) \o Concat(Tail(parts))

\* s without the tokens of drop: replace(/[\{\}]/g, '')
Strip(s, drop) == SelectSeq(s, LAMBDA c : c \notin drop)

\* Number.prototype.toString of an array index below 10
IndexString(i) == <<"0", "1", "2", "3", "4", "5", "6", "7", "8", "9">>[i + 1]

(***************************************************************************)
(* Objects: a JavaScript object is the sequence of its own properties in   *)
(* insertion order, [k |-> name, v |-> value], with no name twice.         *)
(***************************************************************************)
Has(obj, k) == \E i \in 1..Len(obj) : obj[i].k = k

KeyIndex(obj, k) == CHOOSE i \in 1..Len(obj) : obj[i].k = k

Get(obj, k) == obj[KeyIndex(obj, k)].v

\* obj[k] = v
Put(obj, k, v) ==
    IF Has(obj, k)
    THEN [obj EXCEPT ![KeyIndex(obj, k)] = [k |-> k, v |-> v]]
    ELSE Append(obj, [k |-> k, v |-> v])

\* {...a, ...b} and Object.assign({}, a, b): b's values win, a's order is kept
RECURSIVE assign(_, _)
assign(a, b) ==
    IF b = <<>> THEN a ELSE assign(Put(a, Head(b).k, Head(b).v), Tail(b))

(***************************************************************************)
(* Data bags.  A value is a primitive (v: its toString), an array (e: its  *)
(* items) or an object (e: its properties).                                *)
(***************************************************************************)
Prim(v) == [t |-> "prim", v |-> v, e |-> <<>>]

Arr(items) == [t |-> "arr", v |-> <<>>, e |-> items]

Obj(props) == [t |-> "obj", v |-> <<>>, e |-> props]

P(k, v) == [k |-> k, v |-> v]


(***************************************************************************)
(* Formatter.flattern and Formatter.flatternArray: the nested bag as one   *)
(* object from dotted/bracketed paths to primitives.                       *)
(***************************************************************************)
RECURSIVE flatternFrom(_, _, _, _)
RECURSIVE flatternArrayFrom(_, _, _, _)

\* data.forEach((item, index) => ...), from item i on, result so far
flatternArrayFrom(items, prefix, i, result) ==
    IF i > Len(items) THEN result
    ELSE LET item == items[i]
             idx  == <<"[", IndexString(i - 1), "]">>
             key  == IF prefix # <<>> THEN prefix \o <<".">> \o idx ELSE idx
             next == CASE item.t = "arr" ->
                            assign(result, flatternArrayFrom(item.e, key, 1, <<>>))
                       [] item.t = "obj" ->
                            assign(result, flatternFrom(item.e, key, 1, <<>>))
                       [] OTHER -> Put(result, key, item.v)
         IN  flatternArrayFrom(items, prefix, i + 1, next)

\* Object.entries(data).reduce((acc, [key, value]) => ..., {}), from entry i on
flatternFrom(props, prefix, i, acc) ==
    IF i > Len(props) THEN acc
    ELSE LET key     == props[i].k
             value   == props[i].v
             lastKey == IF prefix # <<>> THEN prefix \o <<".">> \o key ELSE key
             next == CASE value.t = "arr" ->
                            assign(acc, flatternArrayFrom(value.e, lastKey, 1, <<>>))
                       [] value.t = "obj" ->
                            assign(acc, flatternFrom(value.e, lastKey, 1, <<>>))
                       [] OTHER -> assign(acc, <<P(lastKey, value.v)>>)
         IN  flatternFrom(props, prefix, i + 1, next)

flatternArray(items, prefix) == flatternArrayFrom(items, prefix, 1, <<>>)

flattern(data, prefix) == flatternFrom(data, prefix, 1, <<>>)

(***************************************************************************)
(* Formatter.arrayLike: the slice of the flattened bag under `path`, as    *)
(* the list of records a loop iterates over.                               *)
(***************************************************************************)
\* a canonical array index ("0", "7", "12"): such property names are
\* enumerated first, in ascending numeric order, by Object.values
IsIndexName(k) ==
    /\ Len(k) >= 1
    /\ \A i \in 1..Len(k) : k[i] \in Digits
    /\ (Len(k) > 1 => k[1] # "0")

DigitVal(c) == CHOOSE d \in 0..9 : IndexString(d) = c

RECURSIVE NumVal(_)
NumVal(k) == IF k = <<>> THEN 0 ELSE 10 * NumVal(SubStr(k, 1, Len(k) - 1)) + DigitVal(k[Len(k)])

\* the properties of obj that satisfy Test, in order
Filter(obj, Test(_)) == SelectSeq(obj, LAMBDA p : Test(p.k))

\* the index-named properties of obj in ascending order
RECURSIVE SortIndexNamed(_)
SortIndexNamed(obj) ==
    IF obj = <<>> THEN <<>>
    ELSE LET m == CHOOSE i \in 1..Len(obj) :
                     \A j \in 1..Len(obj) : NumVal(obj[i].k) <= NumVal(obj[j].k)
         IN  <<obj[m]>> \o SortIndexNamed(SubStr(obj, 1, m - 1) \o SubStr(obj, m + 1, Len(obj)))

\* Object.values(obj)
RECURSIVE ValuesOf(_)
ValuesOf(obj) == IF obj = <<>> THEN <<>> ELSE <<Head(obj).v>> \o ValuesOf(Tail(obj))

ObjectValues(obj) ==
    ValuesOf(SortIndexNamed(Filter(obj, IsIndexName))
             \o Filter(obj, LAMBDA k : ~IsIndexName(k)))

\* dataOfPath.reduce((acc, [key, value]) => ..., {}), from entry i on
RECURSIVE arrayLikeReduce(_, _, _, _)
arrayLikeReduce(dataOfPath, path, i, acc) ==
    IF i > Len(dataOfPath) THEN acc
    ELSE LET key    == dataOfPath[i].k
             value  == dataOfPath[i].v
             parts  == split(replaceStr(key, path \o <<".", "[">>, <<>>), <<"]", ".">>)
             index  == Head(parts)
             remain == Tail(parts)
             rec    == IF Has(acc, index) THEN Get(acc, index) ELSE <<>>
             rec2   == Put(rec, join(remain, <<"]", ".">>), value)
         IN  arrayLikeReduce(dataOfPath, path, i + 1, Put(acc, index, rec2))

\* a mapping read as one record of its keys
arrayLike_oneRecord(data, path) ==
    LET dataOfPath == Filter(data, LAMBDA key : startsWith(key, path \o <<".">>))
    IN  IF dataOfPath = <<>> THEN <<>>
        ELSE << [i \in 1..Len(dataOfPath) |->
                   P(replaceStr(dataOfPath[i].k, path \o <<".">>, <<>>), dataOfPath[i].v)] >>

arrayLike(data, path) ==
    LET dataOfPath == Filter(data, LAMBDA key : startsWith(key, path \o <<".">>))
        \* isArray is assigned at every key under the path: the last one decides
        isArray == /\ dataOfPath # <<>>
                   /\ startsWith(dataOfPath[Len(dataOfPath)].k, path \o <<".", "[">>)
    IN  IF dataOfPath = <<>> THEN <<>>
        ELSE IF ~isArray
        THEN [i \in 1..Len(dataOfPath) |->
                 << P(<<"key">>, replaceStr(dataOfPath[i].k, path \o <<".">>, <<>>)),
                    P(<<"value">>, dataOfPath[i].v) >>]
        ELSE ObjectValues(arrayLikeReduce(dataOfPath, path, 1, <<>>))


(***************************************************************************)
(* Regular expressions.  new RegExp(src) over the alphabet: a literal, "." *)
(* (any one character), a class [...], a braced quantifier {n}.  "{", "}"  *)
(* and "]" are literals where they open or close nothing (ECMAScript       *)
(* Annex B).  The compiled pattern is the sequence of the sets of tokens   *)
(* its positions accept; a pattern the constructor rejects with a          *)
(* SyntaxError has ok = FALSE.                                             *)
(***************************************************************************)
SyntaxError == [ok |-> FALSE, atoms |-> <<>>]

\* the position of the "}" closing a braced quantifier {digits} opened at i, or 0
QuantifierEnd(src, i) ==
    LET ends == {j \in (i + 2)..Len(src) :
                    /\ src[j] = "}"
                    /\ \A k \in (i + 1)..(j - 1) : src[k] \in Digits}
    IN  IF src[i] = "{" /\ ends # {} THEN CHOOSE j \in ends : TRUE ELSE 0

\* the position of the "]" closing a class opened at i, or 0
ClassEnd(src, i) ==
    LET ends == {j \in (i + 1)..Len(src) : src[j] = "]"}
    IN  IF ends = {} THEN 0 ELSE CHOOSE j \in ends : \A k \in ends : j <= k

Unescape(c) == IF c = "\\[" THEN "[" ELSE IF c = "\\]" THEN "]" ELSE c

ClassSet(src, i, j) == {Unescape(src[k]) : k \in (i + 1)..(j - 1)} \cap Char1

RECURSIVE CompileFrom(_, _, _, _)
CompileFrom(src, i, atoms, canRepeat) ==
    IF i > Len(src) THEN [ok |-> TRUE, atoms |-> atoms]
    ELSE LET c == src[i]
             q == QuantifierEnd(src, i)
             e == ClassEnd(src, i)
         IN  CASE c = "{" /\ q # 0 ->
                    \* a quantifier with nothing to repeat is a SyntaxError
                    IF ~canRepeat THEN SyntaxError
                    ELSE LET n    == NumVal(SubStr(src, i + 1, q - 1))
                             last == atoms[Len(atoms)]
                         IN  CompileFrom(src, q + 1,
                                 SubStr(atoms, 1, Len(atoms) - 1) \o [k \in 1..n |-> last],
                                 FALSE)
               [] c = "[" ->
                    \* an unterminated character class is a SyntaxError
                    IF e = 0 THEN SyntaxError
                    ELSE CompileFrom(src, e + 1, Append(atoms, ClassSet(src, i, e)), TRUE)
               [] c = "." -> CompileFrom(src, i + 1, Append(atoms, Char1), TRUE)
               [] OTHER -> CompileFrom(src, i + 1, Append(atoms, {Unescape(c)}), TRUE)

RegExp(src) == CompileFrom(src, 1, <<>>, FALSE)

\* the compiled pattern matches the text at position i
MatchAt(atoms, s, i) ==
    /\ i >= 1
    /\ i + Len(atoms) - 1 <= Len(s)
    /\ \A k \in 1..Len(atoms) : s[i + k - 1] \in atoms[k]

\* RegExp.prototype.exec without the g flag: the leftmost match position, or 0
execAt(atoms, s) ==
    LET hits == {i \in 1..(Len(s) - Len(atoms) + 1) : MatchAt(atoms, s, i)}
    IN  IF hits = {} THEN 0 ELSE CHOOSE i \in hits : \A k \in hits : i <= k

\* String.prototype.replace with a pattern without the g flag
replaceFirst(s, atoms, rep) ==
    LET i == execAt(atoms, s)
    IN  IF i = 0 THEN s
        ELSE SubStr(s, 1, i - 1) \o rep \o SubStr(s, i + Len(atoms), Len(s))

\* String.prototype.replace with a pattern with the g flag, from position i on
RECURSIVE replaceAllFrom(_, _, _, _)
replaceAllFrom(s, atoms, rep, i) ==
    IF i > Len(s) THEN (IF atoms = <<>> THEN rep ELSE <<>>)
    ELSE IF MatchAt(atoms, s, i)
    THEN IF atoms = <<>>
         THEN rep \o <<s[i]>> \o replaceAllFrom(s, atoms, rep, i + 1)
         ELSE rep \o replaceAllFrom(s, atoms, rep, i + Len(atoms))
    ELSE <<s[i]>> \o replaceAllFrom(s, atoms, rep, i + 1)

replaceAll(s, atoms, rep) == replaceAllFrom(s, atoms, rep, 1)

\* the length of the longest run of tokens outside `stop` from position i on
RECURSIVE RunLen(_, _, _)
RunLen(s, i, stop) ==
    IF i > Len(s) \/ s[i] \in stop THEN 0 ELSE 1 + RunLen(s, i + 1, stop)

(***************************************************************************)
(* Formatter.escape: replace(/([\.\[\]\{\}])/, '$1') puts the first        *)
(* special character back as itself, so the text is returned unchanged.    *)
(***************************************************************************)
escape(path) ==
    LET special == {i \in 1..Len(path) : path[i] \in {".", "[", "]", "{", "}"}}
        i == IF special = {} THEN 0 ELSE CHOOSE m \in special : \A k \in special : m <= k
    IN  IF i = 0 THEN path
        ELSE SubStr(path, 1, i - 1) \o <<path[i]>> \o SubStr(path, i + 1, Len(path))

(***************************************************************************)
(* Formatter.variable(prefix): /{prefix:([^:}]+)}/g, the prefix and its    *)
(* ":" left out when prefix is empty.  `head` is the compiled text before  *)
(* the group.                                                              *)
(***************************************************************************)
variable(prefix) ==
    LET escaped == IF prefix # <<>> THEN escape(prefix) \o <<":">> ELSE <<>>
        head    == RegExp(<<"{">> \o escaped)
    IN  [ok |-> head.ok, head |-> head.atoms]

\* the variable pattern with a class that leaves out only the closing brace
variableMatchLen_anyText(head, s, i) ==
    LET j == i + Len(head)
        r == RunLen(s, j, {"}"})
    IN  IF MatchAt(head, s, i) /\ r >= 1 /\ j + r <= Len(s) /\ s[j + r] = "}"
        THEN Len(head) + r + 1
        ELSE 0

\* the length of the match of a variable pattern at position i, or 0
variableMatchLen(head, s, i) ==
    LET j == i + Len(head)
        r == RunLen(s, j, {":", "}"})
    IN  IF MatchAt(head, s, i) /\ r >= 1 /\ j + r <= Len(s) /\ s[j + r] = "}"
        THEN Len(head) + r + 1
        ELSE 0

\* the leftmost match position of a variable pattern, or 0
variableExec(head, s) ==
    LET hits == {i \in 1..Len(s) : variableMatchLen(head, s, i) > 0}
    IN  IF hits = {} THEN 0 ELSE CHOOSE i \in hits : \A k \in hits : i <= k

\* content.match(varPattern): every match, left to right, from position i on
RECURSIVE variableMatches(_, _, _)
variableMatches(head, s, i) ==
    IF i > Len(s) THEN <<>>
    ELSE LET n == variableMatchLen(head, s, i)
         IN  IF n > 0
             THEN <<SubStr(s, i, i + n - 1)>> \o variableMatches(head, s, i + n)
             ELSE variableMatches(head, s, i + 1)

\* filter((v, i, s) => s.indexOf(v) === i)
unique(seq) ==
    LET keep == {i \in 1..Len(seq) : \A j \in 1..(i - 1) : seq[j] # seq[i]}
        RECURSIVE pick(_)
        pick(i) == IF i > Len(seq) THEN <<>>
                   ELSE (IF i \in keep THEN <<seq[i]>> ELSE <<>>) \o pick(i + 1)
    IN  pick(1)

(***************************************************************************)
(* Formatter.component(): /{@component:([^}:]+)}/i.  The alphabet has one  *)
(* case of each letter, so the i flag changes nothing.                     *)
(***************************************************************************)
componentMatchLen(s, i) ==
    LET r == RunLen(s, i + 3, {":", "}"})
    IN  IF /\ OccursAt(s, <<"{", "@component", ":">>, i)
           /\ r >= 1 /\ i + 3 + r <= Len(s) /\ s[i + 3 + r] = "}"
        THEN r + 4
        ELSE 0

\* the first match: [at |-> position or 0, found |-> its text, name |-> group 1]
component(s) ==
    LET hits == {i \in 1..Len(s) : componentMatchLen(s, i) > 0}
        i == IF hits = {} THEN 0 ELSE CHOOSE m \in hits : \A k \in hits : m <= k
        n == IF i = 0 THEN 0 ELSE componentMatchLen(s, i)
    IN  [at |-> i, found |-> SubStr(s, i, i + n - 1), name |-> SubStr(s, i + 3, i + n - 2)]

(***************************************************************************)
(* Formatter.loop(prefix):                                                 *)
(*   /{@loop:(prefix:([^:]+))}([\s\S]*?){@endloop:\1}/                     *)
(* `head` is the compiled "prefix:" (empty without prefix).  A match is    *)
(* [at, original, loopPath, child]; at = 0 when there is none.             *)
(***************************************************************************)
loop(prefix) ==
    LET start == IF prefix # <<>> THEN prefix \o <<":">> ELSE <<>>
        head  == RegExp(start)
    IN  [ok |-> head.ok, head |-> head.atoms]

NoMatch == [at |-> 0, original |-> <<>>, loopPath |-> <<>>, child |-> <<>>]

MinOf(S) == CHOOSE m \in S : \A k \in S : m <= k

MaxOf(S) == CHOOSE m \in S : \A k \in S : m >= k

\* group 1 of a match at position i whose group 2 has length r
loopPathAt(head, s, i, r) == SubStr(s, i + 3, i + 2 + Len(head) + r)

\* where the body lazily ends: the first {@endloop:\1} after the opening tag
loopEndAt(head, s, i, r) ==
    indexOf(s, <<"{", "@endloop", ":">> \o loopPathAt(head, s, i, r) \o <<"}">>,
            i + 4 + Len(head) + r)

\* the pattern matches at position i with group 2 of length r
loopMatchesAt(head, s, i, r) ==
    /\ OccursAt(s, <<"{", "@loop", ":">>, i)
    /\ MatchAt(head, s, i + 3)
    /\ r >= 1 /\ r <= RunLen(s, i + 3 + Len(head), {":"})
    /\ i + 3 + Len(head) + r <= Len(s) /\ s[i + 3 + Len(head) + r] = "}"
    /\ loopEndAt(head, s, i, r) # 0

\* the match at position i with group 2 of length r, ending at tag position e
loopMatchWith(head, s, i, r, e) ==
    [at |-> i,
     original |-> SubStr(s, i, e + Len(head) + r + 3),
     loopPath |-> loopPathAt(head, s, i, r),
     child |-> SubStr(s, i + 4 + Len(head) + r, e - 1)]

\* at start i: group 2 is greedy, so the longest r that lets the rest match
loopExecAt(head, s, i, r) == loopMatchWith(head, s, i, r, loopEndAt(head, s, i, r))

loopExecFrom(head, s, i) ==
    loopExecAt(head, s, i, MaxOf({r \in 1..Len(s) : loopMatchesAt(head, s, i, r)}))

loopStarts(head, s) ==
    {i \in 1..Len(s) : \E r \in 1..Len(s) : loopMatchesAt(head, s, i, r)}

\* pattern.exec(content): leftmost start, longest group 2, shortest body
loopExec(head, s) ==
    IF loopStarts(head, s) = {} THEN NoMatch
    ELSE loopExecFrom(head, s, MinOf(loopStarts(head, s)))

(***************************************************************************)
(* The private solvers.  Each returns [ok, s]: the text, or ok = FALSE     *)
(* when a RegExp constructor threw.  `flat` is this.flatterned.            *)
(***************************************************************************)
Ok(s) == [ok |-> TRUE, s |-> s]

Throw == [ok |-> FALSE, s |-> <<>>]

\* const v = ...; then the rest of the block
With(v, Rest(_)) == Rest(v)

\* the same, the rest being skipped when computing v threw
Try(r, Rest(_)) == IF r.ok THEN Rest(r) ELSE Throw

\* index === undefined
Undefined == -1

\* the key a marker names: what follows the last ":" under a prefix, braces removed
variableKey(varPath, prefix) ==
    Strip(IF prefix # <<>>
          THEN With(split(varPath, <<":">>), LAMBDA parts : parts[Len(parts)])
          ELSE varPath,
          {"{", "}"})

\* data[key] ?? ''
valueOf(data, key) == IF Has(data, key) THEN Get(data, key) ELSE <<>>

\* varMatches.forEach((varPath) => ...), from match i on
RECURSIVE solveVariablesEach(_, _, _, _, _)
solveVariablesEach(content, data, prefix, varMatches, i) ==
    IF i > Len(varMatches) THEN Ok(content)
    ELSE Try(RegExp(escape(varMatches[i])), LAMBDA replaceRegex :
             solveVariablesEach(
                 replaceAll(content, replaceRegex.atoms,
                            valueOf(data, variableKey(varMatches[i], prefix))),
                 data, prefix, varMatches, i + 1))

solveVariables(content, data, prefix) ==
    IF content = <<>> THEN Ok(content)
    ELSE Try(variable(prefix), LAMBDA varPattern :
             solveVariablesEach(content, data, prefix,
                 unique(variableMatches(varPattern.head, content, 1)), 1))

\* index !== undefined ? loopPath.replace(':', `.[${index}].`) : loopPath
realPath(loopPath, index) ==
    IF index # Undefined
    THEN replaceStr(loopPath, <<":">>, <<".", "[", IndexString(index), "]", ".">>)
    ELSE loopPath

RECURSIVE solveLoop(_, _, _, _)
RECURSIVE solveLoopMatch(_, _, _, _)
RECURSIVE solveLoopEach(_, _, _, _, _)

\* loopArray.forEach((values, index) => ...), from element i on
solveLoopEach(flat, match, loopArray, i, formattedChild) ==
    IF i > Len(loopArray) THEN Ok(formattedChild)
    ELSE
    Try(RegExp(<<"{">> \o escape(match.loopPath) \o <<":", "\\[", "x", "\\]", "}">>),
        LAMBDA indexPattern :
    Try(solveVariables(
            replaceFirst(match.child, indexPattern.atoms, <<IndexString(i - 1)>>),
            loopArray[i], match.loopPath),
        LAMBDA c2 :
    Try(solveLoop(flat, c2.s, <<>>, Undefined),
        LAMBDA c3 :
    Try(solveLoop(flat, c3.s, match.loopPath, i - 1),
        LAMBDA c4 :
    solveLoopEach(flat, match, loopArray, i + 1, formattedChild \o c4.s)))))

solveLoopMatch(flat, content, match, index) ==
    With(arrayLike(flat, realPath(match.loopPath, index)), LAMBDA loopArray :
    Try(solveLoopEach(flat, match, loopArray, 1, <<>>), LAMBDA formattedChild :
    Ok(replaceStr(IF loopArray = <<>>
                  THEN replaceStr(content, match.original, <<>>)
                  ELSE content,
                  match.original, formattedChild.s))))

\* while ((match = pattern.exec(content))) content = this.solveLoopMatch(...)
solveLoop(flat, content, prefix, index) ==
    Try(loop(prefix), LAMBDA pattern :
    With(loopExec(pattern.head, content), LAMBDA match :
    IF match.at = 0 THEN Ok(content)
    ELSE Try(solveLoopMatch(flat, content, match, index), LAMBDA next :
             solveLoop(flat, next.s, prefix, index))))

\* isNeedFormat: the variable or the loop pattern matches this.formatted
isNeedFormat(text) ==
    \/ variableExec(variable(<<>>).head, text) # 0
    \/ loopExec(loop(<<>>).head, text).at # 0

\* isHasComponent: the component pattern matches this.formatted
isHasComponent(text) == component(text).at # 0


(***************************************************************************)
(* Bounds and inputs                                                       *)
(***************************************************************************)
\* the longest template outside a loop block, in parts
MaxParts == 3

\* the longest loop body, in parts
MaxBody == 2

\* the longest sequence in a data bag
MaxItems == 2

\* format() calls on one Formatter
MaxCalls == 2

\* setter calls on one Formatter
MaxSets == 2

Var(path) == <<"{">> \o path \o <<"}">>

LoopTag(path) == <<"{", "@loop", ":">> \o path \o <<"}">>

EndLoopTag(path) == <<"{", "@endloop", ":">> \o path \o <<"}">>

ComponentTag(name) == <<"{", "@component", ":">> \o name \o <<"}">>

IndexTag(path) == <<"{">> \o path \o <<":", "[", "x", "]", "}">>

\* {path:key}{path:value}: the fields of an entry of a mapping
EntryTags(path) == Var(path \o <<":", "key">>) \o Var(path \o <<":", "value">>)

\* every sequence of at most n members of S
Sequences(S, n) == UNION {[1..k -> S] : k \in 0..n}

\* text and variable markers: plain, dotted, bracketed, digits only, scoped
VarParts ==
    { <<"q">>,
      Var(<<"b">>),
      Var(<<"s", ".", "f">>),
      Var(<<"s", ".", "[", "0", "]", ".", "f">>),
      Var(<<"0">>),
      Var(<<"s", ":", "f">>) }

VarTemplates == {Concat(ps) : ps \in Sequences(VarParts, MaxParts)}

\* text, a variable marker and component markers
ComponentParts ==
    { <<"q">>, Var(<<"b">>), ComponentTag(<<"h">>), ComponentTag(<<"j">>) }

ComponentTemplates == {Concat(ps) : ps \in Sequences(ComponentParts, MaxParts)}

\* what a loop body is made of
BodyParts ==
    { <<"q">>,
      <<"}">>,
      Var(<<"b">>),
      Var(<<"s", ":", "f">>),
      EntryTags(<<"s">>),
      IndexTag(<<"s">>) }

\* the text before and after a loop block
Before == {<<>>, <<"q">>}

After == {<<>>, <<"q">>, <<"}">>}

\* one loop block over s, text around it
LoopTemplates ==
    { pre \o LoopTag(<<"s">>) \o Concat(body) \o EndLoopTag(<<"s">>) \o post :
        pre \in Before, body \in Sequences(BodyParts, MaxBody), post \in After }

\* what follows a loop tag that is never closed: text, markers, the end tag
\* of another path
UnterminatedParts ==
    { <<"q">>, Var(<<"b">>), Var(<<"s", ":", "f">>), EndLoopTag(<<"f">>) }

\* a loop tag over s with no end tag over s
UnterminatedTemplates ==
    { pre \o LoopTag(<<"s">>) \o Concat(body) \o post :
        pre \in Before, body \in Sequences(UnterminatedParts, MaxBody), post \in After }


\* brace-delimited text that is not made of identifier characters
NonIdentifierText == { Var(<<"@loop">>), Var(<<"{", "b">>) }

\* text, a variable marker, and brace-delimited text of other characters
BraceParts == { <<"q">>, Var(<<"b">>) } \cup NonIdentifierText

BraceTemplates == {Concat(ps) : ps \in Sequences(BraceParts, MaxBody)}


\* a loop body with the unprefixed marker {f}, f being a field of the records
UnprefixedBody == { <<"q">>, Var(<<"f">>), Var(<<"s", ":", "f">>) }

UnprefixedTemplates ==
    { LoopTag(<<"s">>) \o Concat(body) \o EndLoopTag(<<"s">>) :
        body \in Sequences(UnprefixedBody, MaxBody) }


Templates ==
    VarTemplates \cup ComponentTemplates \cup LoopTemplates \cup UnterminatedTemplates
                 \cup BraceTemplates \cup UnprefixedTemplates

\* the values of the i-th record of a sequence
ItemValue(i) == <<"w", "z", "r", "g">>[((i - 1) % 4) + 1]

Item(i) == Obj(<<P(<<"f">>, Prim(<<ItemValue(i)>>))>>)

\* { b: 'w', s: [ {f: 'w'}, {f: 'z'}, ... ] } with n records
SeqBag(n) == <<P(<<"b">>, Prim(<<"w">>)), P(<<"s">>, Arr([i \in 1..n |-> Item(i)]))>>

\* { b: 'w', s: { f: 'z', g: 'r' } }
MapBag == <<P(<<"b">>, Prim(<<"w">>)),
            P(<<"s">>, Obj(<<P(<<"f">>, Prim(<<"z">>)), P(<<"g">>, Prim(<<"r">>))>>))>>

\* a mapping, an empty sequence and a sequence of MaxItems records
Bags == {MapBag, SeqBag(0), SeqBag(MaxItems)}

\* components: name -> { content, data }; both define b
Registry ==
    << P(<<"h">>, [content |-> <<"[">> \o Var(<<"b">>) \o <<"]">>,
                   data    |-> <<P(<<"b">>, Prim(<<"z">>))>>]),
       P(<<"j">>, [content |-> Var(<<"b">>) \o Var(<<"g">>),
                   data    |-> <<P(<<"b">>, Prim(<<"r">>)), P(<<"g">>, Prim(<<"f">>))>>]) >>

Registries == {<<>>, Registry}

\* the argument of format(data?): given = FALSE is format()
NoData == [given |-> FALSE, data |-> <<>>]

Extras == {NoData, [given |-> TRUE, data |-> <<P(<<"b">>, Prim(<<"x">>))>>]}

\* the templates an instance is followed through several calls with
Contents ==
    { Var(<<"b">>),
      <<"q">> \o Var(<<"s", ".", "f">>),
      ComponentTag(<<"h">>),
      LoopTag(<<"s">>) \o Var(<<"s", ":", "f">>) \o EndLoopTag(<<"s">>) }

(***************************************************************************)
(* The Formatter instance                                                  *)
(***************************************************************************)
VARIABLES
    content,        \* this.content
    data,           \* this.data
    flatterned,     \* this.flatterned
    formatted,      \* this.formatted; <<>> also stands for undefined (both falsy)
    components,     \* this.components
    pc,             \* where the running format() call is; "idle" outside a call
    work,           \* solveComponent's local `content`
    result,         \* what the last format() returned
    callData,       \* this.data as the running or last call found it
    callExtra,      \* the argument of the running or last call
    calls,          \* format() calls returned
    sets,           \* setter calls made
    untouched,      \* a format() call has returned and no setter was called since
    lastSetter      \* the setter called last since the last return, or "none"

vars == <<content, data, flatterned, formatted, components, pc, work, result,
          callData, callExtra, calls, sets, untouched, lastSetter>>

(***************************************************************************)
(* The RateLimiter instance and the clock it reads                         *)
(***************************************************************************)
VARIABLES
    clock,          \* Date.now(), in ticks
    limiterOptions, \* this.options: maxRequests, interval (0: not given)
    queues,         \* this.queues: the callbacks waiting, by arrival number
    requestTimes,   \* this.requestTimes
    executing,      \* this.executing
    wpc,            \* where queue()'s loop is: "idle", "sleep", "run", "loop"
    slotNow,        \* waitForSlot's `now`, while it sleeps
    wakeAt,         \* when the timer of Retry.sleep(delay) is due
    current,        \* the callback the loop has shifted
    arrivals,       \* handle() calls made
    started,        \* the callbacks started: arrival number and start time
    callbacks,      \* by arrival number: how the callback's promise settled,
                    \* "pending" before
    promises        \* by arrival number: how the promise handle() returned
                    \* settled, "pending" before

rateVars == <<clock, limiterOptions, queues, requestTimes, executing, wpc,
              slotNow, wakeAt, current, arrivals, started, callbacks, promises>>

\* new RateLimiter(options)
LimiterConstructed(o) ==
    /\ clock = 0
    /\ limiterOptions = o
    /\ queues = <<>>
    /\ requestTimes = <<>>
    /\ executing = FALSE
    /\ wpc = "idle"
    /\ slotNow = 0
    /\ wakeAt = 0
    /\ current = 0
    /\ arrivals = 0
    /\ started = <<>>
    /\ callbacks = <<>>
    /\ promises = <<>>

(***************************************************************************)
(* The Retry instance                                                      *)
(***************************************************************************)
VARIABLES
    retryOptions,   \* this.options: maxRetries, delay (0: not given)
    rpc,            \* where retry() is: "idle", "call", "sleep"
    attemp,         \* the loop variable of retry()
    delay,          \* retry()'s local `delay`
    maxRetries,     \* retry()'s local `maxRetries`
    lastError,      \* retry()'s local: the attempt whose error it holds, or 0
    outcome,        \* how the last retry() call settled
    runs,           \* retry() calls made
    given,          \* this.options.maxRetries when retry() was called
    steady,         \* setOptions has not changed maxRetries during the call
    invocations,    \* callback() calls of the last retry() call
    sleeps          \* Retry.sleep() calls of the last retry() call

retryVars == <<retryOptions, rpc, attemp, delay, maxRetries, lastError, outcome, runs,
               given, steady, invocations, sleeps>>

\* retry() has not settled
Pending == [kind |-> "pending", error |-> "none", cause |-> 0]

\* new Retry(options)
RetryConstructed(o) ==
    /\ retryOptions = o
    /\ rpc = "idle"
    /\ attemp = 0
    /\ delay = 0
    /\ maxRetries = 0
    /\ lastError = 0
    /\ outcome = Pending
    /\ runs = 0
    /\ given = 0
    /\ steady = TRUE
    /\ invocations = 0
    /\ sleeps = 0

(***************************************************************************)
(* The PubSub singleton                                                    *)
(***************************************************************************)
VARIABLES
    subscribers,    \* this._subscribers: channel -> event -> id -> handler
    hasWindow,      \* window.dispatchEvent is a function
    ppc,            \* where pub() is: "idle", "forEach"
    pubArgs,        \* the arguments of the running or last pub()
    cursor,         \* the entries events.forEach has passed
    atPub,          \* the entries of (channel, event) when pub() was called
    invoked,        \* the handler calls of the running or last pub()
    pubOutcome,     \* how the last pub() ended: "none", "returned", "threw"
    dispatched,     \* the CustomEvents dispatched on window, by name
    pubs,           \* pub() calls made
    subs,           \* sub() calls made
    unsubbed        \* per (channel, event): the ids unsub() has removed, not
                    \* subscribed again since

pubsubVars == <<subscribers, hasWindow, ppc, pubArgs, cursor, atPub, invoked,
                pubOutcome, dispatched, pubs, subs, unsubbed>>

Channels == {"c"}

Events == {"e", "g"}

\* new Map(): a key is absent (has = FALSE) or bound
NoEvents == [ev \in Events |-> [has |-> FALSE, ids |-> <<>>]]

NoChannels == [ch \in Channels |-> [has |-> FALSE, events |-> NoEvents]]

NoPub == [channel |-> "c", event |-> "e", data |-> "none"]

\* PubSub.getInstance() for the first time: new PubSub()
PubSubConstructed(w) ==
    /\ subscribers = NoChannels
    /\ hasWindow = w
    /\ ppc = "idle"
    /\ pubArgs = NoPub
    /\ cursor = 0
    /\ atPub = <<>>
    /\ invoked = <<>>
    /\ pubOutcome = "none"
    /\ dispatched = <<>>
    /\ pubs = 0
    /\ subs = 0
    /\ unsubbed = [ce \in Channels \X Events |-> {}]

(***************************************************************************)
(* StoreBase: the stores publish and subscribe on the PubSub singleton,    *)
(* each on the channel of its name.  One event name is modelled; the       *)
(* runtime has no window.                                                  *)
(***************************************************************************)
VARIABLES
    storeState,     \* this._state of every store
    bus,            \* the subscriptions of the singleton, in insertion order:
                    \* id, channel, the store subscribed through, the handler
    stack,          \* the pub() calls in progress, the innermost last: the
                    \* store dispatching, the data, the entry forEach is at
    lastCall,       \* the last handler invocation: the store subscribed
                    \* through, the store dispatching, detail.data, and the
                    \* state of the store subscribed through at that moment
    dispatches      \* dispatch() calls made from outside the handlers

storeVars == <<storeState, bus, stack, lastCall, dispatches>>

\* two instances of one store class and one of another class
Stores == {"A", "B", "O"}

\* no handler has been invoked
NoCall == [owner |-> "none", by |-> "none", data |-> 0, state |-> 0]

\* new SomeStore(): constructor(state) with the initial state 0
StoreConstructed ==
    /\ storeState = [st \in Stores |-> 0]
    /\ bus = <<>>
    /\ stack = <<>>
    /\ lastCall = NoCall
    /\ dispatches = 0

(***************************************************************************)
(* useDisclosure: the state isOpen and the handleOpen / handleClose calls  *)
(* that wait for their onBefore...Async hook                               *)
(***************************************************************************)
VARIABLES
    isOpen,         \* the state of useState(open)
    inflight,       \* the handleOpen / handleClose calls at their await:
                    \* the number of the request and what it sets
    requested,      \* open / close requests made after the mount
    lastRequest     \* what the latest request asked for

disclosureVars == <<isOpen, inflight, requested, lastRequest>>

\* useDisclosure({ open }) is mounted: useState(open), and the effect on
\* [open] calls handleOpen() or handleClose()
Mounted(open) ==
    /\ isOpen = open
    /\ inflight = {[n |-> 0, sets |-> open]}
    /\ requested = 0
    /\ lastRequest = open

\* no component uses the hook
Unmounted ==
    /\ isOpen = FALSE
    /\ inflight = {}
    /\ requested = 0
    /\ lastRequest = FALSE

(***************************************************************************)
(* The pane: the container, one item and the Resizer of this item          *)
(***************************************************************************)
VARIABLES
    horizontal,         \* pane.horizontal: the split axis is the height
    containerWidth,     \* state.containerWidth
    containerHeight,    \* state.containerHeight
    item,               \* state.items[index]: width and height
    min,                \* the prop min of the Resizer (0: not given)
    max,                \* the prop max of the Resizer (0: not given)
    dragging,           \* dragging.current
    startSize,          \* startSize.current
    startPoint,         \* startPoint.current, or Undefined
    listener            \* what the handleMouseMove registered on window
                        \* closes over: the item and the container of the
                        \* render that registered it

resizerVars == <<horizontal, containerWidth, containerHeight, item, min, max,
                 dragging, startSize, startPoint, listener>>

\* no listener is registered on window
NoListener ==
    [on |-> FALSE, item |-> [width |-> 0, height |-> 0], containerWidth |-> 0,
     containerHeight |-> 0]

\* a pane with its container and the item measured, the Resizer rendered
\* and no drag going on
PaneRendered(h, w, ht, it, lo, hi) ==
    /\ horizontal = h
    /\ containerWidth = w
    /\ containerHeight = ht
    /\ item = it
    /\ min = lo
    /\ max = hi
    /\ dragging = FALSE
    /\ startSize = IF h THEN it.height ELSE it.width
    /\ startPoint = Undefined
    /\ listener = NoListener

\* initialState of the pane, with an empty item
PaneIdle == PaneRendered(FALSE, 0, 0, [width |-> 0, height |-> 0], 0, 0)

\* the stores and the pieces of the user interface
uiVars == <<storeVars, disclosureVars, resizerVars>>

UiIdle ==
    /\ StoreConstructed
    /\ Unmounted
    /\ PaneIdle

\* what a Formatter does not touch
outside == <<rateVars, retryVars, pubsubVars, uiVars>>

\* no options given, nothing submitted, nothing subscribed
OutsideIdle ==
    /\ LimiterConstructed([maxRequests |-> 0, interval |-> 0])
    /\ RetryConstructed([maxRetries |-> 0, delay |-> 0])
    /\ PubSubConstructed(FALSE)
    /\ UiIdle

\* new Formatter(c, d).setComponents(r): the constructor is given the template
\* and the bag; the registry starts empty and setComponents replaces it
Constructed(c, d, r) ==
    /\ content = c
    /\ data = d
    /\ flatterned = flattern(d, <<>>)
    /\ formatted = <<>>
    /\ components = r
    /\ pc = "idle"
    /\ work = <<>>
    /\ result = <<>>
    /\ callData = <<>>
    /\ callExtra = NoData
    /\ calls = 0
    /\ sets = 0
    /\ untouched = FALSE
    /\ lastSetter = "none"

\* a Formatter nothing is done with
FormatterIdle == Constructed(<<>>, <<>>, <<>>)

\* constructor(content, data = {})
Init ==
    /\ \E c \in Contents, d \in Bags \cup {<<>>} : Constructed(c, d, <<>>)
    /\ OutsideIdle

\* setData(data)
setData(d) ==
    /\ pc = "idle" /\ sets < MaxSets
    /\ data' = d
    /\ flatterned' = flattern(d, <<>>)
    /\ sets' = sets + 1
    /\ untouched' = FALSE
    /\ lastSetter' = "setData"
    /\ UNCHANGED <<content, formatted, components, pc, work, result, callData,
                   callExtra, calls>>
    /\ UNCHANGED outside

\* setComponents(components)
setComponents(c) ==
    /\ pc = "idle" /\ sets < MaxSets
    /\ components' = c
    /\ sets' = sets + 1
    /\ untouched' = FALSE
    /\ lastSetter' = "setComponents"
    /\ UNCHANGED <<content, data, flatterned, formatted, pc, work, result,
                   callData, callExtra, calls>>
    /\ UNCHANGED outside

\* setContent(content)
setContent(t) ==
    /\ pc = "idle" /\ sets < MaxSets
    /\ content' = t
    /\ sets' = sets + 1
    /\ untouched' = FALSE
    /\ lastSetter' = "setContent"
    /\ UNCHANGED <<data, flatterned, formatted, components, pc, work, result,
                   callData, callExtra, calls>>
    /\ UNCHANGED outside

\* format(data?), up to the first loop test
format(extra) ==
    /\ pc = "idle" /\ calls < MaxCalls
    /\ data' = IF extra.given THEN assign(data, extra.data) ELSE data
    /\ flatterned' = IF extra.given THEN flattern(data', <<>>) ELSE flatterned
    /\ formatted' = IF formatted = <<>> THEN content ELSE formatted
    /\ callData' = data
    /\ callExtra' = extra
    /\ pc' = "hasComp"
    /\ UNCHANGED <<content, components, work, result, calls, sets, untouched, lastSetter>>
    /\ UNCHANGED outside

\* while (this.isHasComponent()): into solveComponent(this.formatted), or on
formatHasComponent ==
    /\ pc = "hasComp"
    /\ IF isHasComponent(formatted)
       THEN pc' = "solveComp" /\ work' = formatted
       ELSE pc' = "need" /\ work' = work
    /\ UNCHANGED <<content, data, flatterned, formatted, components, result,
                   callData, callExtra, calls, sets, untouched, lastSetter>>
    /\ UNCHANGED outside

\* the caller's keys kept on conflict
mergedData_callerWins(callerData, componentData) == assign(componentData, callerData)

\* Object.assign({}, this.data, component.data)
mergedData(callerData, componentData) == assign(callerData, componentData)

\* solveComponent: one turn of `while ((match = pattern.exec(content)))`
solveComponent ==
    /\ pc = "solveComp"
    /\ component(work).at # 0
    /\ LET match == component(work)
           regex == RegExp(escape(match.found))
       IN  IF ~regex.ok
           THEN pc' = "threw" /\ UNCHANGED <<work, data>>
           ELSE /\ pc' = pc
                /\ IF ~Has(components, match.name)
                   THEN /\ work' = replaceFirst(work, regex.atoms, <<>>)
                        /\ data' = data
                   ELSE /\ work' = replaceFirst(work, regex.atoms,
                                                Get(components, match.name).content)
                        /\ data' = mergedData(data, Get(components, match.name).data)
    /\ UNCHANGED <<content, flatterned, formatted, components, result, callData,
                   callExtra, calls, sets, untouched, lastSetter>>
    /\ UNCHANGED outside

\* solveComponent: no match is left; reflatten and return to format's loop
solveComponentReturn ==
    /\ pc = "solveComp"
    /\ component(work).at = 0
    /\ flatterned' = flattern(data, <<>>)
    /\ formatted' = work
    /\ pc' = "hasComp"
    /\ UNCHANGED <<content, data, components, work, result, callData, callExtra,
                   calls, sets, untouched, lastSetter>>
    /\ UNCHANGED outside

\* while (this.isNeedFormat()): into the pass
formatNeedFormat ==
    /\ pc = "need"
    /\ isNeedFormat(formatted)
    /\ pc' = "vars"
    /\ UNCHANGED <<content, data, flatterned, formatted, components, work, result,
                   callData, callExtra, calls, sets, untouched, lastSetter>>
    /\ UNCHANGED outside

\* this.formatted = this.solveVariables(this.formatted, this.flatterned)
formatSolveVariables ==
    /\ pc = "vars"
    /\ LET r == solveVariables(formatted, flatterned, <<>>)
       IN  IF r.ok THEN formatted' = r.s /\ pc' = "loop"
           ELSE formatted' = formatted /\ pc' = "threw"
    /\ UNCHANGED <<content, data, flatterned, components, work, result, callData,
                   callExtra, calls, sets, untouched, lastSetter>>
    /\ UNCHANGED outside

\* this.formatted = this.solveLoop(this.formatted)
formatSolveLoop ==
    /\ pc = "loop"
    /\ LET r == solveLoop(flatterned, formatted, <<>>, Undefined)
       IN  IF r.ok THEN formatted' = r.s /\ pc' = "need"
           ELSE formatted' = formatted /\ pc' = "threw"
    /\ UNCHANGED <<content, data, flatterned, components, work, result, callData,
                   callExtra, calls, sets, untouched, lastSetter>>
    /\ UNCHANGED outside

\* a return that forgets the instance's bag and cached text
formatReturn_resets ==
    /\ pc = "need"
    /\ ~isNeedFormat(formatted)
    /\ result' = formatted
    /\ calls' = calls + 1
    /\ pc' = "idle"
    /\ untouched' = TRUE
    /\ lastSetter' = "none"
    /\ data' = <<>>
    /\ flatterned' = <<>>
    /\ formatted' = <<>>
    /\ UNCHANGED <<content, components, work, callData, callExtra, sets>>
    /\ UNCHANGED outside

\* return this.formatted
formatReturn ==
    /\ pc = "need"
    /\ ~isNeedFormat(formatted)
    /\ result' = formatted
    /\ calls' = calls + 1
    /\ pc' = "idle"
    /\ untouched' = TRUE
    /\ lastSetter' = "none"
    /\ UNCHANGED <<content, data, flatterned, formatted, components, work,
                   callData, callExtra, sets>>
    /\ UNCHANGED outside

\* the steps of a running format() call
Step ==
    \/ formatHasComponent
    \/ solveComponent
    \/ solveComponentReturn
    \/ formatNeedFormat
    \/ formatSolveVariables
    \/ formatSolveLoop
    \/ formatReturn

Next ==
    \/ \E d \in Bags : setData(d)
    \/ \E c \in Registries : setComponents(c)
    \/ \E t \in Contents : setContent(t)
    \/ \E extra \in Extras : format(extra)
    \/ Step

\* an instance from its construction on, through setters and format() calls
Spec == Init /\ [][Next]_vars

(***************************************************************************)
(* format() as a function of the template, the bag and the registry: one   *)
(* call on a fresh instance, for every template of Templates.  Only a      *)
(* template with component markers is also run against an empty registry.  *)
(***************************************************************************)
FormatInit ==
    /\ \E c \in Templates, d \in Bags, r \in Registries :
          /\ r = <<>> => c \in ComponentTemplates
          /\ Constructed(c, d, r)
    /\ OutsideIdle

FormatNext ==
    \/ (calls = 0 /\ format(NoData))
    \/ Step

FormatSpec == FormatInit /\ [][FormatNext]_vars

(***************************************************************************)
(* Reading a template back into its pieces: a piece opened by "{" runs to  *)
(* the next "}", any other character is a piece of its own.                *)
(***************************************************************************)
PieceEnd(s, i) ==
    IF s[i] = "{" /\ indexOf(s, <<"}">>, i) # 0 THEN indexOf(s, <<"}">>, i) ELSE i

RECURSIVE PiecesFrom(_, _)
PiecesFrom(s, i) ==
    IF i > Len(s) THEN <<>>
    ELSE <<SubStr(s, i, PieceEnd(s, i))>> \o PiecesFrom(s, PieceEnd(s, i) + 1)

Pieces(s) == PiecesFrom(s, 1)

\* the text of the pieces, each one put through F
Render(ps, F(_)) == Concat([i \in 1..Len(ps) |-> F(ps[i])])

\* {path} with no ":" in it and no keyword
IsPlainMarker(p) ==
    /\ Len(p) >= 3 /\ p[1] = "{" /\ p[Len(p)] = "}"
    /\ \A i \in 2..(Len(p) - 1) : p[i] \notin {":", "{", "}", "@loop", "@endloop", "@component"}

MarkerPath(p) == SubStr(p, 2, Len(p) - 1)

IsComponentTag(p) == p \in {ComponentTag(<<"h">>), ComponentTag(<<"j">>)}

\* the last format() call has returned, or has ended one way or the other
Returned == pc = "idle" /\ calls >= 1

Ended == Returned \/ pc = "threw"

\* every {@loop:s} piece has its {@endloop:s} piece after it
LoopsMatched(text) ==
    \A i \in 1..Len(Pieces(text)) :
        Pieces(text)[i] = LoopTag(<<"s">>) =>
            \E j \in (i + 1)..Len(Pieces(text)) : Pieces(text)[j] = EndLoopTag(<<"s">>)

\* ps is text, one loop block over s, text: the positions of its two tags
LoopAt(ps) == MinOf({i \in 1..Len(ps) : ps[i] = LoopTag(<<"s">>)})

EndLoopAt(ps) == MinOf({i \in 1..Len(ps) : ps[i] = EndLoopTag(<<"s">>)})

IsLoopTemplate(ps, InBody, Around) ==
    /\ Cardinality({i \in 1..Len(ps) : ps[i] = LoopTag(<<"s">>)}) = 1
    /\ Cardinality({i \in 1..Len(ps) : ps[i] = EndLoopTag(<<"s">>)}) = 1
    /\ LoopAt(ps) < EndLoopAt(ps)
    /\ \A i \in 1..Len(ps) :
          \/ i \in {LoopAt(ps), EndLoopAt(ps)}
          \/ (LoopAt(ps) < i /\ i < EndLoopAt(ps) /\ ps[i] \in InBody)
          \/ ((i < LoopAt(ps) \/ i > EndLoopAt(ps)) /\ ps[i] \in Around)

BeforeLoop(ps) == Concat(SubStr(ps, 1, LoopAt(ps) - 1))

LoopBody(ps) == SubStr(ps, LoopAt(ps) + 1, EndLoopAt(ps) - 1)

AfterLoop(ps) == Concat(SubStr(ps, EndLoopAt(ps) + 1, Len(ps)))

(***************************************************************************)
(* Termination and exceptions                                              *)
(***************************************************************************)
\* one pass of the rescan loop: solveVariables, then solveLoop
RescanPass(text, flat) ==
    Try(solveVariables(text, flat, <<>>), LAMBDA v : solveLoop(flat, v.s, <<>>, Undefined))

\* C1: for every template whose {@loop:p} tags each have a matching
\* {@endloop:p}, every bag and every registry, format() terminates.  Nothing
\* but the passes of the rescan loop changes the text and the flattened bag
\* during that loop, so it stops only if no pass that finds the text in need
\* of formatting leaves it as it was.
C1_PassMakesProgress ==
    (pc = "need" /\ LoopsMatched(content) /\ isNeedFormat(formatted))
    => RescanPass(formatted, flatterned) # Ok(formatted)

\* C2: format() never throws, whatever text stands between braces in the
\* template or in a component name.
C2_NeverThrows == pc # "threw"

(***************************************************************************)
(* Variable markers                                                        *)
(***************************************************************************)
\* text that is no plain marker: a letter, and a marker scoped to a loop
OtherText == {<<"q">>, Var(<<"s", ":", "f">>)}

\* C3: in a template of plain markers whose paths are in the flattened bag,
\* and of other text, the output has each marker replaced by its value where
\* it stood, and the other text as it was.
C3_PresentMarkersReplaced ==
    (/\ Returned
     /\ \A i \in 1..Len(Pieces(content)) :
           \/ Pieces(content)[i] \in OtherText
           \/ /\ IsPlainMarker(Pieces(content)[i])
              /\ Has(flatterned, MarkerPath(Pieces(content)[i])))
    => result = Render(Pieces(content),
                       LAMBDA p : IF p \in OtherText THEN p
                                  ELSE Get(flatterned, MarkerPath(p)))

\* C4: in a template of text and of plain markers whose paths are absent from
\* the bag, the call gives an output, and it has each marker replaced by the
\* empty string.
C4_AbsentMarkersBecomeEmpty ==
    (/\ Ended
     /\ \A i \in 1..Len(Pieces(content)) :
           \/ Pieces(content)[i] = <<"q">>
           \/ /\ IsPlainMarker(Pieces(content)[i])
              /\ ~Has(flatterned, MarkerPath(Pieces(content)[i])))
    => /\ Returned
       /\ result = Render(Pieces(content), LAMBDA p : IF p = <<"q">> THEN p ELSE <<>>)

(***************************************************************************)
(* Loop blocks                                                             *)
(***************************************************************************)
\* the body of a loop over a sequence: text, a scoped variable, the index
SequenceBody == {<<"q">>, Var(<<"s", ":", "f">>), IndexTag(<<"s">>)}

\* the i-th expansion (i = 0..N-1) of a body over the records of SeqBag
SequenceExpansion(body, i) ==
    Render(body, LAMBDA p : IF p = IndexTag(<<"s">>) THEN <<IndexString(i)>>
                            ELSE IF p = Var(<<"s", ":", "f">>) THEN <<ItemValue(i + 1)>>
                            ELSE p)

\* C5: a loop block over a sequence of N records gives N expansions of its
\* body, in sequence order, the i-th with the index placeholder resolved to i
\* and {s:f} resolved from the i-th record.
C5_SequenceExpansions ==
    \A n \in 0..MaxItems :
        (/\ Returned
         /\ data = SeqBag(n)
         /\ IsLoopTemplate(Pieces(content), SequenceBody, {<<"q">>}))
        => result = BeforeLoop(Pieces(content))
                    \o Concat([i \in 1..n |-> SequenceExpansion(LoopBody(Pieces(content)), i - 1)])
                    \o AfterLoop(Pieces(content))

\* the body of a loop over a mapping: text and scoped variables
MappingBody ==
    {<<"q">>, Var(<<"s", ":", "f">>), Var(<<"s", ":", "key">>), Var(<<"s", ":", "value">>)}

\* the properties of the mapping s of MapBag: name and text of each
MapEntries == Get(MapBag, <<"s">>).e

\* C6, as stated: a loop block over a plain mapping is expanded exactly once,
\* {s:f} resolving to the mapping's value for f.
C6_MappingIsOneRecord ==
    (/\ Returned
     /\ data = MapBag
     /\ IsLoopTemplate(Pieces(content), {<<"q">>, Var(<<"s", ":", "f">>)}, {<<"q">>}))
    => result = BeforeLoop(Pieces(content))
                \o Render(LoopBody(Pieces(content)),
                          LAMBDA p : IF p = <<"q">> THEN p
                                     ELSE Get(MapEntries, <<"f">>).v)
                \o AfterLoop(Pieces(content))

\* the expansion of a body for one property of the mapping
EntryExpansion(body, entry) ==
    Render(body, LAMBDA p : IF p = <<"q">> THEN p
                            ELSE IF p = Var(<<"s", ":", "key">>) THEN entry.k
                            ELSE IF p = Var(<<"s", ":", "value">>) THEN entry.v.v
                            ELSE <<>>)

\* C6, amended: a loop block over a plain mapping is expanded once per key
\* of the mapping, in key order; in the expansion for a key, {s:key} is the
\* key's name, {s:value} its value and any other scoped variable is empty.
C6_MappingIsEntries ==
    (/\ Returned
     /\ data = MapBag
     /\ IsLoopTemplate(Pieces(content), MappingBody, {<<"q">>}))
    => result = BeforeLoop(Pieces(content))
                \o Concat([i \in 1..Len(MapEntries) |->
                              EntryExpansion(LoopBody(Pieces(content)), MapEntries[i])])
                \o AfterLoop(Pieces(content))

\* the block {@loop:s}{s:key}{s:value}{@endloop:s} has given "fzgr"
C6_Witness ==
    /\ Returned
    /\ data = MapBag
    /\ content = LoopTag(<<"s">>) \o EntryTags(<<"s">>) \o EndLoopTag(<<"s">>)
    /\ result = <<"f", "z", "g", "r">>

\* C7: a loop block over an empty collection is removed, delimiters
\* included, and the text before and after it is unchanged.
C7_EmptyLoopRemoved ==
    (/\ Returned
     /\ data = SeqBag(0)
     /\ IsLoopTemplate(Pieces(content), BodyParts \cup Pieces(EntryTags(<<"s">>)),
                       {<<"q">>, <<"}">>}))
    => result = BeforeLoop(Pieces(content)) \o AfterLoop(Pieces(content))

(***************************************************************************)
(* Components                                                              *)
(***************************************************************************)
\* the value of b in the data of the component a tag names
OwnB(tag) == Get(Get(Registry, MarkerPath(SubStr(tag, 3, Len(tag)))).data, <<"b">>).v

\* the content of the component a tag names, {b} being v and {g} j's own g
ComponentText(tag, v) ==
    IF tag = ComponentTag(<<"h">>) THEN <<"[">> \o v \o <<"]">> ELSE v \o <<"f">>

\* C8: each marker of a registered component gives way to the component's
\* content, the markers in it resolved from that component's own data, also
\* when several components are used in the template.
C8_ComponentOwnData ==
    (/\ Returned
     /\ components = Registry
     /\ \A i \in 1..Len(Pieces(content)) :
           Pieces(content)[i] = <<"q">> \/ IsComponentTag(Pieces(content)[i]))
    => result = Render(Pieces(content),
                       LAMBDA p : IF p = <<"q">> THEN p ELSE ComponentText(p, OwnB(p)))

\* text, the caller's {b} and component markers
IsComponentTemplate(ps) ==
    \A i \in 1..Len(ps) : ps[i] \in {<<"q">>, Var(<<"b">>)} \/ IsComponentTag(ps[i])

\* C9, as stated: a key defined by the caller and by a component keeps the
\* caller's value, and the markers for it resolve to that value.
C9_CallerKeysKept ==
    (/\ Returned
     /\ components = Registry
     /\ IsComponentTemplate(Pieces(content)))
    => result = Render(Pieces(content),
                       LAMBDA p : IF p = <<"q">> THEN p
                                  ELSE IF p = Var(<<"b">>) THEN Get(flattern(callData, <<>>), <<"b">>)
                                  ELSE ComponentText(p, Get(flattern(callData, <<>>), <<"b">>)))

\* the value b has once every component of the template is merged: that of
\* the last component marker, the caller's when there is none
MergedB(ps, callerB) ==
    IF \E i \in 1..Len(ps) : IsComponentTag(ps[i])
    THEN OwnB(ps[MaxOf({i \in 1..Len(ps) : IsComponentTag(ps[i])})])
    ELSE callerB

\* C9, amended: a key defined by the caller and by a component takes the
\* component's value (that of the component expanded last when several
\* define it), and every marker for the key, in the caller's template and in
\* the components' content, resolves to that value.
C9_ComponentKeysWin ==
    (/\ Returned
     /\ components = Registry
     /\ IsComponentTemplate(Pieces(content)))
    => result = Render(Pieces(content),
                       LAMBDA p : IF p = <<"q">> THEN p
                                  ELSE IF p = Var(<<"b">>)
                                  THEN MergedB(Pieces(content), Get(flattern(callData, <<>>), <<"b">>))
                                  ELSE ComponentText(p, MergedB(Pieces(content), <<>>)))

\* {b}{@component:h} has given "z[z]": the caller's b was "w"
C9_Witness ==
    /\ Returned
    /\ components = Registry
    /\ Get(flattern(callData, <<>>), <<"b">>) = <<"w">>
    /\ content = Var(<<"b">>) \o ComponentTag(<<"h">>)
    /\ result = <<"z", "[", "z", "]">>

(***************************************************************************)
(* format(extraData)                                                       *)
(***************************************************************************)
\* C10: a format(extraData) call on the template {b}, b being in extraData
\* and in the bag, returns the extraData value of b.
C10_ExtraKeysWin ==
    [][(/\ pc = "need" /\ pc' = "idle"
        /\ callExtra.given
        /\ Has(callData, <<"b">>)
        /\ content = Var(<<"b">>))
       => result' = Get(flattern(callExtra.data, <<>>), <<"b">>)]_vars

IsUnterminated(ps) ==
    /\ \E i \in 1..Len(ps) : ps[i] = LoopTag(<<"s">>)
    /\ \A i \in 1..Len(ps) : ps[i] # EndLoopTag(<<"s">>)

MaxProps == 2

\* property names: plain ones, and ones spelled like a flattened path
Names == { <<"s">>, <<"s", ".", "f">>, <<"s", ".", "[", "0", "]">> }

\* a primitive, { f: 'z' }, [ 'z' ] and []
Values ==
    { Prim(<<"w">>), Obj(<<P(<<"f">>, Prim(<<"z">>))>>), Arr(<<Prim(<<"z">>)>>), Arr(<<>>) }

\* objects of at most MaxProps properties, no name twice
NestedBags ==
    { [i \in 1..Len(ks) |-> P(ks[i], vs[i])] :
        <<ks, vs>> \in { kv \in Sequences(Names, MaxProps) \X Sequences(Values, MaxProps) :
                           /\ Len(kv[1]) = Len(kv[2])
                           /\ \A i, j \in 1..Len(kv[1]) : kv[1][i] = kv[1][j] => i = j } }

\* new Formatter(content, bag), then setData(bag) any number of times
FlatternInit ==
    /\ \E d \in NestedBags : Constructed(Var(<<"b">>), d, <<>>)
    /\ OutsideIdle

FlatternNext == \E d \in NestedBags : setData(d)

FlatternSpec == FlatternInit /\ [][FlatternNext]_vars

\* the leaf primitives of a value; each (arrays: the items, objects: the
\* property values)
RECURSIVE LeafCount(_)
RECURSIVE LeafCountFrom(_, _, _)
LeafCountFrom(e, isObj, i) ==
    IF i > Len(e) THEN 0
    ELSE LeafCount(IF isObj THEN e[i].v ELSE e[i]) + LeafCountFrom(e, isObj, i + 1)

LeafCount(value) ==
    IF value.t = "prim" THEN 1 ELSE LeafCountFrom(value.e, value.t = "obj", 1)

\* C13: the flattened table of a nested bag has exactly one entry for every
\* leaf primitive of the bag (no two leaves obtain the same key).
C13_OneKeyPerLeaf ==
    Len(flatterned) = LeafCount(Obj(data))

(***************************************************************************)
(* what counts as a variable marker                                        *)
(***************************************************************************)
\* C14: brace-delimited text whose content is not made of identifier
\* characters only is left unchanged by format(): a template of text, {b}
\* markers and such brace-delimited text returns with {b} replaced and every
\* other piece as it was.
C14_OtherBraceTextUnchanged ==
    (/\ Returned
     /\ \A i \in 1..Len(Pieces(content)) : Pieces(content)[i] \in BraceParts)
    => result = Render(Pieces(content),
                       LAMBDA p : IF p = Var(<<"b">>)
                                  THEN Get(flattern(callData, <<>>), <<"b">>)
                                  ELSE p)

(***************************************************************************)
(* unprefixed markers in a loop body                                       *)
(***************************************************************************)
\* C15: in a loop block over a sequence of records, the unprefixed marker {f}
\* resolves in the i-th expansion to the field f of the i-th record, as the
\* scoped marker {s:f} does.
C15_UnprefixedResolvesToItem ==
    \A n \in 0..MaxItems :
        (/\ Returned
         /\ data = SeqBag(n)
         /\ IsLoopTemplate(Pieces(content), UnprefixedBody, {}))
        => result = Concat([i \in 1..n |->
                              Render(LoopBody(Pieces(content)),
                                     LAMBDA p : IF p = <<"q">> THEN p
                                                ELSE <<ItemValue(i)>>)])

(***************************************************************************)
(* RateLimiter: handle() pushes a wrapper of the callback on this.queues   *)
(* and calls queue(); queue() runs the wrappers one after the other, each  *)
(* awaiting waitForSlot() and then the callback.                           *)
(***************************************************************************)
\* the latest tick of the clock
MaxTime == 6

\* handle() calls on one RateLimiter
MaxArrivals == 3

\* static DEFAULT_DELAY
DEFAULT_DELAY == 3000

\* static DEFAULT_MAX_REQUESTS
DEFAULT_MAX_REQUESTS == 1

\* this.options.interval || RateLimiter.DEFAULT_DELAY
interval == IF limiterOptions.interval # 0 THEN limiterOptions.interval ELSE DEFAULT_DELAY

\* this.options.maxRequests || RateLimiter.DEFAULT_MAX_REQUESTS
maxRequests ==
    IF limiterOptions.maxRequests # 0 THEN limiterOptions.maxRequests
    ELSE DEFAULT_MAX_REQUESTS

\* this.requestTimes.filter((time) => time > now - interval)
recent(times, now) == SelectSeq(times, LAMBDA time : time > now - interval)

\* the loop shifts a wrapper and calls it: waitForSlot() up to its await, and,
\* if it does not sleep, the push of `now` and the call of the callback
waitForSlot(callback) ==
    /\ current' = callback
    /\ slotNow' = clock
    /\ IF Len(recent(requestTimes, clock)) >= maxRequests
       THEN /\ requestTimes' = recent(requestTimes, clock)
            /\ wakeAt' = clock + (recent(requestTimes, clock)[1] + interval - clock)
            /\ wpc' = "sleep"
            /\ started' = started
       ELSE /\ requestTimes' = Append(recent(requestTimes, clock), clock)
            /\ wakeAt' = wakeAt
            /\ wpc' = "run"
            /\ started' = Append(started, [id |-> callback, at |-> clock])

\* handle() without the test of this.executing in queue(): every call starts
\* a loop of its own
handle_reentrant ==
    /\ arrivals < MaxArrivals
    /\ arrivals' = arrivals + 1
    /\ callbacks' = Append(callbacks, "pending")
    /\ promises' = Append(promises, "pending")
    /\ executing' = TRUE
    /\ queues' = queues
    /\ waitForSlot(arrivals + 1)
    /\ UNCHANGED <<clock, limiterOptions, vars, retryVars, pubsubVars, uiVars>>

\* handle(callback): push, then queue(), which returns at once when a loop
\* is running and otherwise starts one
handle ==
    /\ arrivals < MaxArrivals
    /\ arrivals' = arrivals + 1
    /\ callbacks' = Append(callbacks, "pending")
    /\ promises' = Append(promises, "pending")
    /\ IF executing
       THEN /\ queues' = Append(queues, arrivals + 1)
            /\ UNCHANGED <<requestTimes, executing, wpc, slotNow, wakeAt, current,
                           started>>
       ELSE /\ executing' = TRUE
            /\ queues' = queues
            /\ waitForSlot(arrivals + 1)
    /\ UNCHANGED <<clock, limiterOptions, vars, retryVars, pubsubVars, uiVars>>

\* the timer of Retry.sleep(delay) fires: this.requestTimes.push(now), and
\* the callback is called
waitForSlotWakes ==
    /\ wpc = "sleep"
    /\ clock >= wakeAt
    /\ requestTimes' = Append(requestTimes, slotNow)
    /\ started' = Append(started, [id |-> current, at |-> clock])
    /\ wpc' = "run"
    /\ UNCHANGED <<clock, limiterOptions, queues, executing, slotNow, wakeAt,
                   current, arrivals, callbacks, promises, vars,
                   retryVars, pubsubVars, uiVars>>

\* the wrapper without its catch: a rejection leaves handle()'s promise
\* pending and ends the loop of queue() with this.executing still set
callbackSettles_noCatch ==
    /\ wpc = "run"
    /\ \E o \in {"resolved", "rejected"} :
          /\ callbacks' = [callbacks EXCEPT ![current] = o]
          /\ IF o = "resolved"
             THEN /\ promises' = [promises EXCEPT ![current] = o]
                  /\ wpc' = "loop"
             ELSE /\ promises' = promises
                  /\ wpc' = "idle"
    /\ UNCHANGED <<clock, limiterOptions, queues, requestTimes, executing, slotNow,
                   wakeAt, current, arrivals, started, vars, retryVars, pubsubVars, uiVars>>

\* the callback's promise settles; the wrapper resolves handle()'s promise
\* with the result, or rejects it with the error it has caught
callbackSettles ==
    /\ wpc = "run"
    /\ \E o \in {"resolved", "rejected"} :
          /\ callbacks' = [callbacks EXCEPT ![current] = o]
          /\ promises' = [promises EXCEPT ![current] = o]
    /\ wpc' = "loop"
    /\ UNCHANGED <<clock, limiterOptions, queues, requestTimes, executing, slotNow,
                   wakeAt, current, arrivals, started, vars, retryVars, pubsubVars, uiVars>>

\* while (this.queues.length): the next wrapper
queueNext ==
    /\ wpc = "loop"
    /\ queues # <<>>
    /\ queues' = Tail(queues)
    /\ waitForSlot(Head(queues))
    /\ UNCHANGED <<clock, limiterOptions, executing, arrivals, callbacks, promises, vars,
                   retryVars, pubsubVars, uiVars>>

\* the loop ends: this.executing = false
queueEnds ==
    /\ wpc = "loop"
    /\ queues = <<>>
    /\ executing' = FALSE
    /\ wpc' = "idle"
    /\ UNCHANGED <<clock, limiterOptions, queues, requestTimes, slotNow, wakeAt,
                   current, arrivals, started, callbacks, promises, vars,
                   retryVars, pubsubVars, uiVars>>

\* a tick of the clock; a due timer need not have fired yet.  Time goes on
\* past MaxTime for as long as a timer is not due.
Tick ==
    /\ clock < MaxTime \/ (wpc = "sleep" /\ clock < wakeAt)
    /\ clock' = clock + 1
    /\ UNCHANGED <<limiterOptions, queues, requestTimes, executing, wpc, slotNow,
                   wakeAt, current, arrivals, started, callbacks, promises, vars,
                   retryVars, pubsubVars, uiVars>>

\* the limits the claims are about
LimiterOptions == [maxRequests : {1, 2}, interval : {2, 3}]

RateInit ==
    /\ \E o \in LimiterOptions : LimiterConstructed(o)
    /\ FormatterIdle
    /\ RetryConstructed([maxRetries |-> 0, delay |-> 0])
    /\ PubSubConstructed(FALSE)
    /\ UiIdle

RateNext ==
    \/ handle
    \/ waitForSlotWakes
    \/ callbackSettles
    \/ queueNext
    \/ queueEnds
    \/ Tick

RateSpec == RateInit /\ [][RateNext]_rateVars

\* the callbacks started in the window of length `interval` that opens at t
StartedIn(t) == {i \in 1..Len(started) : t <= started[i].at /\ started[i].at < t + interval}

\* C16: in every window of length interval at most maxRequests callbacks
\* passed to handle() are started.
C16_AtMostMaxPerWindow ==
    \A t \in 0..MaxTime : Cardinality(StartedIn(t)) <= maxRequests

(***************************************************************************)
(* Retry.retry(callback): up to maxRetries attempts, a sleep after each    *)
(* failed one.                                                             *)
(***************************************************************************)
\* the largest maxRetries given
MaxRetries == 3

\* retry() calls on one Retry
MaxRuns == 2

\* static DEFAULT_DELAY of Retry
Retry_DEFAULT_DELAY == 3000

\* throw new Error(`| Mailer Retry > Max retries reached (...): ...`)
MaxRetriesReached(cause) == [kind |-> "rejected", error |-> "Max retries reached", cause |-> cause]

\* throw lastError: the callback's own error
LastError(cause) == [kind |-> "rejected", error |-> "lastError", cause |-> cause]

\* return await callback()
Resolved == [kind |-> "resolved", error |-> "none", cause |-> 0]

\* retry(callback), up to the first await (the loop is entered: maxRetries >= 1)
retry ==
    /\ rpc = "idle" /\ runs < MaxRuns
    /\ runs' = runs + 1
    /\ lastError' = 0
    /\ delay' = IF retryOptions.delay # 0 THEN retryOptions.delay ELSE Retry_DEFAULT_DELAY
    /\ maxRetries' = IF retryOptions.maxRetries # 0 THEN retryOptions.maxRetries ELSE 1
    /\ attemp' = 1
    /\ outcome' = Pending
    /\ rpc' = "call"
    /\ given' = retryOptions.maxRetries
    /\ steady' = TRUE
    /\ invocations' = 1
    /\ sleeps' = 0
    /\ UNCHANGED <<retryOptions, vars, rateVars, pubsubVars, uiVars>>

\* the callback's promise is fulfilled
callbackResolves ==
    /\ rpc = "call"
    /\ outcome' = Resolved
    /\ rpc' = "idle"
    /\ UNCHANGED <<retryOptions, attemp, delay, maxRetries, lastError, runs, given,
                   steady, invocations, sleeps, vars, rateVars, pubsubVars, uiVars>>

\* a catch block without the test of the last attempt: it always sleeps
callbackRejects_alwaysSleeps ==
    /\ rpc = "call"
    /\ lastError' = attemp
    /\ outcome' = outcome /\ rpc' = "sleep" /\ sleeps' = sleeps + 1
    /\ UNCHANGED <<retryOptions, attemp, delay, maxRetries, runs, given, steady,
                   invocations, vars, rateVars, pubsubVars, uiVars>>

\* the callback's promise is rejected: the catch block
callbackRejects ==
    /\ rpc = "call"
    /\ lastError' = attemp
    /\ IF attemp = retryOptions.maxRetries
       THEN outcome' = MaxRetriesReached(attemp) /\ rpc' = "idle" /\ sleeps' = sleeps
       ELSE outcome' = outcome /\ rpc' = "sleep" /\ sleeps' = sleeps + 1
    /\ UNCHANGED <<retryOptions, attemp, delay, maxRetries, runs, given, steady,
                   invocations, vars, rateVars, pubsubVars, uiVars>>

\* Retry.sleep(delay) is over: attemp++, the loop test, `throw lastError`
\* after the loop
sleepEnds ==
    /\ rpc = "sleep"
    /\ attemp' = attemp + 1
    /\ IF attemp + 1 <= maxRetries
       THEN outcome' = outcome /\ rpc' = "call" /\ invocations' = invocations + 1
       ELSE outcome' = LastError(lastError) /\ rpc' = "idle" /\ invocations' = invocations
    /\ UNCHANGED <<retryOptions, delay, maxRetries, lastError, runs, given, steady,
                   sleeps, vars, rateVars, pubsubVars, uiVars>>

\* maxRetries and delay, each given or not
RetryOptions == [maxRetries : 0..MaxRetries, delay : {0, 1}]

\* setOptions(options), at any moment: a running retry() reads
\* this.options.maxRetries again in its catch block
setOptions(o) ==
    /\ retryOptions' = o
    /\ steady' = (steady /\ (rpc = "idle" \/ o.maxRetries = retryOptions.maxRetries))
    /\ UNCHANGED <<rpc, attemp, delay, maxRetries, lastError, outcome, runs, given,
                   invocations, sleeps, vars, rateVars, pubsubVars, uiVars>>

RetryInit ==
    /\ \E o \in RetryOptions : RetryConstructed(o)
    /\ FormatterIdle
    /\ LimiterConstructed([maxRequests |-> 0, interval |-> 0])
    /\ PubSubConstructed(FALSE)
    /\ UiIdle

RetryNext ==
    \/ \E o \in RetryOptions : setOptions(o)
    \/ retry
    \/ callbackResolves
    \/ callbackRejects
    \/ sleepEnds

RetrySpec == RetryInit /\ [][RetryNext]_retryVars

\* C17: a retry() call whose attempts all fail rejects with the error whose
\* message contains 'Max retries reached', whatever the options.
C17_RejectsWithMaxRetries ==
    outcome.kind = "rejected" => outcome.error = "Max retries reached"

(***************************************************************************)
(* PubSub: sub, unsub and pub on the singleton.  A Map is the sequence of  *)
(* its entries in insertion order; Map.forEach visits the entries that     *)
(* are in the map when it comes to them, those added meanwhile included.   *)
(***************************************************************************)
\* sub() calls, from outside and from handlers
MaxSubs == 2

\* pub() calls
MaxPubs == 2

Handlers == {"h1", "h2"}

\* ids a caller passes to sub()
GivenIds == {"x"}

\* ids PubSub.createId() makes
CreatedIds == {"k"}

Datas == {"d1", "d2"}

\* the entries of (channel, event), in insertion order
entriesOf(m, channelName, eventName) == m[channelName].events[eventName].ids

\* the position of id among the entries, or 0
entryIndex(entries, id) ==
    MinOf({0} \cup {-i : i \in {j \in 1..Len(entries) : entries[j].id = id}}) * (-1)

\* register(channelName)
register(m, channelName) ==
    IF m[channelName].has THEN m
    ELSE [m EXCEPT ![channelName] = [has |-> TRUE, events |-> NoEvents]]

\* channel.has(eventName) || channel.set(eventName, new Map())
withEvent(m, channelName, eventName) ==
    IF m[channelName].events[eventName].has THEN m
    ELSE [m EXCEPT ![channelName].events[eventName] = [has |-> TRUE, ids |-> <<>>]]

\* events.has(id) && events.delete(id)
deleteId(entries, id) == SelectSeq(entries, LAMBDA s : s.id # id)

\* sub(channelName, eventName, handler, id), id given or just created
sub(m, channelName, eventName, handler, id) ==
    [withEvent(register(m, channelName), channelName, eventName)
        EXCEPT ![channelName].events[eventName].ids =
                   Append(deleteId(@, id), [id |-> id, handler |-> handler])]

\* an unsub that drops every subscription of the event
unsub_dropsAll(m, channelName, eventName, id) ==
    IF ~m[channelName].has THEN m
    ELSE IF ~m[channelName].events[eventName].has THEN m
    ELSE [m EXCEPT ![channelName].events[eventName].ids = <<>>]

\* unsub(channelName, eventName, id)
unsub(m, channelName, eventName, id) ==
    IF ~m[channelName].has THEN m
    ELSE IF ~m[channelName].events[eventName].has THEN m
    ELSE [m EXCEPT ![channelName].events[eventName].ids = deleteId(@, id)]

\* createId() gives an id that no entry of the event has
Usable(channelName, eventName, id) ==
    id \in CreatedIds =>
        entryIndex(entriesOf(subscribers, channelName, eventName), id) = 0

\* a call of sub() from outside a delivery
subCall(channelName, eventName, handler, id) ==
    /\ ppc = "idle" /\ subs < MaxSubs
    /\ Usable(channelName, eventName, id)
    /\ subscribers' = sub(subscribers, channelName, eventName, handler, id)
    /\ subs' = subs + 1
    /\ unsubbed' = [unsubbed EXCEPT ![<<channelName, eventName>>] = @ \ {id}]
    /\ UNCHANGED <<hasWindow, ppc, pubArgs, cursor, atPub, invoked, pubOutcome,
                   dispatched, pubs, vars, rateVars, retryVars, uiVars>>

\* a call of unsub(), or of a subscription's unsub(), from outside a delivery
unsubCall(channelName, eventName, id) ==
    /\ ppc = "idle"
    /\ subscribers' = unsub(subscribers, channelName, eventName, id)
    /\ unsubbed' = [unsubbed EXCEPT ![<<channelName, eventName>>] =
                         IF entryIndex(entriesOf(subscribers, channelName, eventName), id) # 0
                         THEN @ \cup {id} ELSE @]
    /\ UNCHANGED <<hasWindow, ppc, pubArgs, cursor, atPub, invoked, pubOutcome,
                   dispatched, pubs, subs, vars, rateVars, retryVars, uiVars>>

\* pub(channelName, eventName, data), up to events.forEach: it returns at
\* once when the channel or the event has no map
pub(channelName, eventName, d) ==
    /\ ppc = "idle" /\ pubs < MaxPubs
    /\ pubs' = pubs + 1
    /\ pubArgs' = [channel |-> channelName, event |-> eventName, data |-> d]
    /\ invoked' = <<>>
    /\ cursor' = 0
    /\ atPub' = entriesOf(subscribers, channelName, eventName)
    /\ IF ~subscribers[channelName].has
       THEN ppc' = "idle" /\ pubOutcome' = "returned"
       ELSE IF ~subscribers[channelName].events[eventName].has
       THEN ppc' = "idle" /\ pubOutcome' = "returned"
       ELSE ppc' = "forEach" /\ pubOutcome' = "none"
    /\ UNCHANGED <<subscribers, hasWindow, dispatched, subs, unsubbed, vars,
                   rateVars, retryVars, uiVars>>

\* the entries of the event pub() is delivering
delivering == entriesOf(subscribers, pubArgs.channel, pubArgs.event)

\* events.forEach calls the next handler with detail.data = data
Invoke ==
    /\ ppc = "forEach"
    /\ cursor < Len(delivering)
    /\ invoked' = Append(invoked, [id |-> delivering[cursor + 1].id,
                                   handler |-> delivering[cursor + 1].handler,
                                   data |-> pubArgs.data])

\* the cursor after the entry of id has been deleted
cursorWithout(id) ==
    IF entryIndex(delivering, id) # 0 /\ entryIndex(delivering, id) <= cursor + 1
    THEN cursor
    ELSE cursor + 1

\* the handler returns
handlerReturns ==
    /\ Invoke
    /\ cursor' = cursor + 1
    /\ UNCHANGED <<subscribers, hasWindow, ppc, pubArgs, atPub, pubOutcome,
                   dispatched, pubs, subs, unsubbed, vars, rateVars, retryVars, uiVars>>

\* the handler throws: forEach and pub() are left by the exception
handlerThrows ==
    /\ Invoke
    /\ cursor' = cursor + 1
    /\ ppc' = "idle"
    /\ pubOutcome' = "threw"
    /\ UNCHANGED <<subscribers, hasWindow, pubArgs, atPub, dispatched, pubs,
                   subs, unsubbed, vars, rateVars, retryVars, uiVars>>

\* the handler subscribes (or subscribes again) to the event being
\* delivered, and returns
handlerSubs(handler, id) ==
    /\ Invoke
    /\ subs < MaxSubs
    /\ Usable(pubArgs.channel, pubArgs.event, id)
    /\ subscribers' = sub(subscribers, pubArgs.channel, pubArgs.event, handler, id)
    /\ cursor' = cursorWithout(id)
    /\ subs' = subs + 1
    /\ unsubbed' = [unsubbed EXCEPT ![<<pubArgs.channel, pubArgs.event>>] = @ \ {id}]
    /\ UNCHANGED <<hasWindow, ppc, pubArgs, atPub, pubOutcome, dispatched, pubs,
                   vars, rateVars, retryVars, uiVars>>

\* the handler unsubscribes an id of the event being delivered, and returns
handlerUnsubs(id) ==
    /\ Invoke
    /\ subscribers' = unsub(subscribers, pubArgs.channel, pubArgs.event, id)
    /\ cursor' = cursorWithout(id)
    /\ unsubbed' = [unsubbed EXCEPT ![<<pubArgs.channel, pubArgs.event>>] =
                         IF entryIndex(delivering, id) # 0 THEN @ \cup {id} ELSE @]
    /\ UNCHANGED <<hasWindow, ppc, pubArgs, atPub, pubOutcome, dispatched, pubs,
                   subs, vars, rateVars, retryVars, uiVars>>

\* forEach is over: the CustomEvent, where there is a window, and return
pubDispatches ==
    /\ ppc = "forEach"
    /\ cursor >= Len(delivering)
    /\ dispatched' = IF hasWindow
                     THEN Append(dispatched, <<pubArgs.channel, ":", pubArgs.event>>)
                     ELSE dispatched
    /\ ppc' = "idle"
    /\ pubOutcome' = "returned"
    /\ UNCHANGED <<subscribers, hasWindow, pubArgs, cursor, atPub, invoked, pubs,
                   subs, unsubbed, vars, rateVars, retryVars, uiVars>>

PubSubInit ==
    /\ \E w \in BOOLEAN : PubSubConstructed(w)
    /\ FormatterIdle
    /\ LimiterConstructed([maxRequests |-> 0, interval |-> 0])
    /\ RetryConstructed([maxRetries |-> 0, delay |-> 0])
    /\ UiIdle

PubSubNext ==
    \/ \E ch \in Channels, ev \in Events, h \in Handlers, id \in GivenIds \cup CreatedIds :
          subCall(ch, ev, h, id)
    \/ \E ch \in Channels, ev \in Events, id \in GivenIds \cup CreatedIds :
          unsubCall(ch, ev, id)
    \/ \E ch \in Channels, ev \in Events, d \in Datas : pub(ch, ev, d)
    \/ handlerReturns
    \/ handlerThrows
    \/ \E h \in Handlers, id \in GivenIds \cup CreatedIds : handlerSubs(h, id)
    \/ \E id \in GivenIds \cup CreatedIds : handlerUnsubs(id)
    \/ pubDispatches

PubSubSpec == PubSubInit /\ [][PubSubNext]_pubsubVars

\* the calls pub() has made of the handler subscribed under id
CallsOf(entry) ==
    {i \in 1..Len(invoked) : invoked[i].id = entry.id /\ invoked[i].handler = entry.handler}

\* C18: when pub() is over (returned or left by an exception), every handler
\* that was subscribed to (channel, event) when pub() was called has been
\* invoked exactly once, with detail.data = data.
C18_EachHandlerOnce ==
    (ppc = "idle" /\ pubOutcome # "none") =>
        \A i \in 1..Len(atPub) :
            /\ Cardinality(CallsOf(atPub[i])) = 1
            /\ \A k \in CallsOf(atPub[i]) : invoked[k].data = pubArgs.data

\* C20: where window.dispatchEvent exists, every pub() call has dispatched
\* one CustomEvent named channel:event on window when it returns, whether or
\* not a handler was ever subscribed to the channel and event.
C20_EveryPubDispatches ==
    (hasWindow /\ ppc = "idle" /\ pubOutcome = "returned") =>
        /\ Len(dispatched) = pubs
        /\ dispatched[pubs] = <<pubArgs.channel, ":", pubArgs.event>>

\* the entries but those of the ids
Without(entries, ids) == SelectSeq(entries, LAMBDA s : s.id \notin ids)

\* the ids a step's unsub() has removed from (channel, event)
Removed(channelName, eventName) ==
    unsubbed'[<<channelName, eventName>>] \ unsubbed[<<channelName, eventName>>]

\* C19: a handler is never invoked under an id that unsub() has removed and
\* that was not subscribed again; a step without a sub() call leaves every
\* other subscription of every channel and event in place, in order; and
\* when pub() returns, every subscription then in the map of its channel and
\* event has been invoked.
C19_UnsubStopsOnlyThatId ==
    [][/\ (invoked' # invoked /\ invoked' # <<>>) =>
              invoked'[Len(invoked')].id \notin unsubbed[<<pubArgs.channel, pubArgs.event>>]
       /\ subs' = subs =>
              \A ch \in Channels, ev \in Events :
                  entriesOf(subscribers', ch, ev)
                      = Without(entriesOf(subscribers, ch, ev), Removed(ch, ev))
       /\ (ppc = "forEach" /\ ppc' = "idle" /\ pubOutcome' = "returned") =>
              \A i \in 1..Len(delivering) :
                  \E k \in 1..Len(invoked) :
                      /\ invoked[k].id = delivering[i].id
                      /\ invoked[k].handler = delivering[i].handler
                      /\ invoked[k].data = pubArgs.data]_pubsubVars

\* x and k were subscribed to (c, e), x was unsubscribed, and a pub() on
\* (c, e) has since invoked k's handler only
C19_Witness ==
    /\ ppc = "idle" /\ pubOutcome = "returned"
    /\ subs = 2
    /\ pubArgs.event = "e"
    /\ unsubbed[<<"c", "e">>] = {"x"}
    /\ atPub = <<[id |-> "k", handler |-> "h2"]>>
    /\ invoked = <<[id |-> "k", handler |-> "h2", data |-> "d1"]>>

(***************************************************************************)
(* format() after a setter                                                 *)
(***************************************************************************)
\* data[key] ?? '' on the flattened bag
TextOf(bag, key) ==
    IF Has(flattern(bag, <<>>), key) THEN Get(flattern(bag, <<>>), key) ELSE <<>>

\* C22: Mailer.send() formats the subject and the html with format(); after
\* a first send, setData(d2) and a second send, the text of the second
\* message is the template resolved against d2: for the template q{s.f},
\* q followed by the value of s.f in d2.
C22_SetDataThenFormat ==
    [][(/\ pc = "need" /\ pc' = "idle"
        /\ calls >= 1 /\ sets = 1 /\ lastSetter = "setData"
        /\ ~callExtra.given
        /\ content = <<"q">> \o Var(<<"s", ".", "f">>))
       => result' = <<"q">> \o TextOf(callData, <<"s", ".", "f">>)]_vars

\* C23: after format() has returned a non-empty string, setContent(t) and
\* format() return the resolution of t: for t = {b}, the value of b.
C23_SetContentThenFormat ==
    [][(/\ pc = "need" /\ pc' = "idle"
        /\ calls >= 1 /\ sets = 1 /\ lastSetter = "setContent"
        /\ result # <<>>
        /\ ~callExtra.given
        /\ content = Var(<<"b">>))
       => result' = TextOf(callData, <<"b">>)]_vars

(***************************************************************************)
(* the index placeholder                                                   *)
(***************************************************************************)
\* C24: after a loop block over a sequence has been expanded, no index
\* placeholder {s:[x]} is left in the output, however often the body holds it.
C24_NoIndexPlaceholderLeft ==
    \A n \in 0..MaxItems :
        (/\ Returned
         /\ data = SeqBag(n)
         /\ IsLoopTemplate(Pieces(content), {<<"q">>, IndexTag(<<"s">>)}, {<<"q">>}))
        => indexOf(result, IndexTag(<<"s">>), 1) = 0


\* ---- RateLimiter: order and settlement ----

\* the specification with the scheduling of the event loop: a due timer
\* fires, a started callback settles, the loop of queue() goes on, and time
\* passes
FairRateSpec ==
    /\ RateInit
    /\ [][RateNext]_rateVars
    /\ WF_rateVars(waitForSlotWakes)
    /\ WF_rateVars(callbackSettles)
    /\ WF_rateVars(queueNext)
    /\ WF_rateVars(queueEnds)
    /\ WF_rateVars(Tick)

\* C25: the callbacks are started in the order of their submission, and when
\* one is started every callback submitted before it has settled
C25_OneAtATimeInOrder ==
    \A k \in 1..Len(started) :
        /\ started[k].id = k
        /\ \A j \in 1..(k - 1) : callbacks[j] # "pending"

\* a callback runs after an earlier one has settled, and another one was
\* submitted while the queue was draining
C25_Witness ==
    /\ wpc = "run"
    /\ current = 2
    /\ callbacks[1] # "pending"
    /\ queues = <<3>>

\* C26: the promise of every handle() call settles in the end, and it settles
\* as its own callback has settled
C26_EveryPromiseSettles ==
    /\ [](\A i \in 1..Len(promises) : promises[i] = callbacks[i])
    /\ \A i \in 1..MaxArrivals :
           (Len(promises) >= i) ~> (Len(promises) >= i /\ promises[i] # "pending")

\* a callback has rejected, and the callbacks queued behind it have run
C26_Witness ==
    /\ Len(promises) = MaxArrivals
    /\ promises[1] = "rejected"
    /\ \A i \in 2..MaxArrivals : promises[i] = "resolved"
    /\ ~executing


\* ---- Retry: the attempts and the sleeps of one call ----

\* C27: a retry() call made with maxRetries = N >= 1, N in force for the whole
\* call, invokes the callback at most N times, resolves on the first
\* successful attempt without another invocation, and sleeps once between
\* two consecutive attempts and never after the last one
C27_AtMostNAttempts ==
    (runs >= 1 /\ steady /\ given >= 1) =>
        /\ invocations <= given
        /\ outcome.kind = "resolved" => (rpc = "idle" /\ invocations = lastError + 1)
        /\ rpc = "sleep" => (sleeps = invocations /\ invocations < given)
        /\ rpc # "sleep" => sleeps = invocations - 1

\* every attempt of a call with the largest maxRetries has failed
C27_Witness ==
    /\ steady /\ given = MaxRetries
    /\ rpc = "idle"
    /\ outcome.kind = "rejected"
    /\ invocations = MaxRetries
    /\ sleeps = MaxRetries - 1

\* a call with maxRetries >= 2 resolves on its second attempt
C27_WitnessResolved ==
    /\ steady /\ given >= 2
    /\ outcome.kind = "resolved"
    /\ invocations = 2
    /\ sleeps = 1


(***************************************************************************)
(* StoreBase.dispatch and StoreBase.subscribe                              *)
(***************************************************************************)
\* the largest state value
MaxState == 1

\* subscriptions on the singleton
MaxStoreSubs == 2

\* dispatch() calls from outside the handlers
MaxDispatches == 1

\* pub() calls nested in one another
MaxDepth == 2

States == 0..MaxState

\* a handler that reads the event and the store, and one that may also
\* dispatch on its store
StoreHandlers == {"reads", "dispatches"}

\* this.name = this.constructor.name: the name of the class
storeName(st) == IF st = "O" THEN "OtherStore" ELSE "CounterStore"

\* channel.get(eventName) of the channel: its entries in insertion order
storeEntries(channelName) == SelectSeq(bus, LAMBDA x : x.channel = channelName)

\* subscribe(name, handler): this.bus.sub(this.name, name, handler)
subscribe(st, handler) ==
    /\ stack = <<>>
    /\ Len(bus) < MaxStoreSubs
    /\ bus' = Append(bus, [id |-> Len(bus) + 1, channel |-> storeName(st),
                           owner |-> st, handler |-> handler])
    /\ UNCHANGED <<storeState, stack, lastCall, dispatches, vars, rateVars, retryVars,
                   pubsubVars, disclosureVars,
                   resizerVars>>

\* this.bus.pub(this.name, name, state) up to forEach: it returns at once
\* when nothing is subscribed on the channel
storePub(st, state) ==
    stack' = IF storeEntries(storeName(st)) = <<>>
             THEN stack
             ELSE Append(stack, [by |-> st, data |-> state, at |-> 1])

\* dispatch(name, state) called from outside the handlers
dispatch(st, state) ==
    /\ stack = <<>>
    /\ dispatches < MaxDispatches
    /\ dispatches' = dispatches + 1
    /\ storeState' = [storeState EXCEPT ![st] = state]
    /\ storePub(st, state)
    /\ UNCHANGED <<bus, lastCall, vars, rateVars, retryVars, pubsubVars, disclosureVars,
                   resizerVars>>

\* the pub() call in progress
Top == stack[Len(stack)]

\* the entry forEach is at
Entry == storeEntries(storeName(Top.by))[Top.at]

\* the handler of the entry is called with detail.data = data
Called ==
    lastCall' = [owner |-> Entry.owner, by |-> Top.by, data |-> Top.data,
                 state |-> storeState[Entry.owner]]

\* forEach goes on to the next entry
Advanced == [stack EXCEPT ![Len(stack)].at = @ + 1]

\* a handler is invoked and returns
storeHandlerReturns ==
    /\ stack # <<>>
    /\ Top.at <= Len(storeEntries(storeName(Top.by)))
    /\ Called
    /\ stack' = Advanced
    /\ UNCHANGED <<storeState, bus, dispatches, vars, rateVars, retryVars, pubsubVars, disclosureVars,
                   resizerVars>>

\* a handler is invoked and calls dispatch(name, state) on the store it was
\* subscribed through
storeHandlerDispatches(state) ==
    /\ stack # <<>>
    /\ Len(stack) < MaxDepth
    /\ Top.at <= Len(storeEntries(storeName(Top.by)))
    /\ Entry.handler = "dispatches"
    /\ Called
    /\ storeState' = [storeState EXCEPT ![Entry.owner] = state]
    /\ stack' = Append(Advanced, [by |-> Entry.owner, data |-> state, at |-> 1])
    /\ UNCHANGED <<bus, dispatches, vars, rateVars, retryVars, pubsubVars, disclosureVars,
                   resizerVars>>

\* forEach is over and pub() returns
storePubReturns ==
    /\ stack # <<>>
    /\ Top.at > Len(storeEntries(storeName(Top.by)))
    /\ stack' = SubSeq(stack, 1, Len(stack) - 1)
    /\ UNCHANGED <<storeState, bus, lastCall, dispatches, vars, rateVars, retryVars,
                   pubsubVars, disclosureVars,
                   resizerVars>>

StoreInit ==
    /\ StoreConstructed
    /\ FormatterIdle
    /\ LimiterConstructed([maxRequests |-> 0, interval |-> 0])
    /\ RetryConstructed([maxRetries |-> 0, delay |-> 0])
    /\ PubSubConstructed(FALSE)
    /\ Unmounted
    /\ PaneIdle

StoreNext ==
    \/ \E st \in Stores, handler \in StoreHandlers : subscribe(st, handler)
    \/ \E st \in Stores, state \in States : dispatch(st, state)
    \/ storeHandlerReturns
    \/ \E state \in States : storeHandlerDispatches(state)
    \/ storePubReturns

StoreSpec == StoreInit /\ [][StoreNext]_storeVars

\* C21: when a handler subscribed through a store is invoked because of a
\* dispatch(name, s) on that store, the state of the store is s, the
\* detail.data of the event
C21_StateIsDispatched ==
    (lastCall.owner # "none" /\ lastCall.owner = lastCall.by)
        => lastCall.state = lastCall.data

\* C28: a handler subscribed through a store is invoked by the dispatches on
\* that store only
C28_OnlyOwnStoreInvokes ==
    lastCall.owner # "none" => lastCall.by = lastCall.owner


(***************************************************************************)
(* useDisclosure: requests to open and to close                            *)
(***************************************************************************)
\* open / close requests after the mount
MaxRequests == 4

\* handleOpen() / handleClose(), called through the ref or through the
\* setter the hook returns: onBeforeOpen?.() or onBeforeClose?.(), then the
\* await of the asynchronous hook
handleOpenChange(open) ==
    /\ requested < MaxRequests
    /\ requested' = requested + 1
    /\ lastRequest' = open
    /\ inflight' = inflight \cup {[n |-> requested + 1, sets |-> open]}
    /\ UNCHANGED <<isOpen, vars, rateVars, retryVars, pubsubVars, storeVars, resizerVars>>

\* the promise of onBeforeOpenAsync / onBeforeCloseAsync of a call
\* resolves, after any duration: setIsOpen(true) or setIsOpen(false), then
\* onOpen?.() or onClose?.()
handlerCompletes ==
    /\ \E call \in inflight :
          /\ isOpen' = call.sets
          /\ inflight' = inflight \ {call}
    /\ UNCHANGED <<requested, lastRequest, vars, rateVars, retryVars, pubsubVars,
                   storeVars, resizerVars>>

DisclosureInit ==
    /\ \E open \in BOOLEAN : Mounted(open)
    /\ FormatterIdle
    /\ LimiterConstructed([maxRequests |-> 0, interval |-> 0])
    /\ RetryConstructed([maxRetries |-> 0, delay |-> 0])
    /\ PubSubConstructed(FALSE)
    /\ StoreConstructed
    /\ PaneIdle

DisclosureNext ==
    \/ \E open \in BOOLEAN : handleOpenChange(open)
    \/ handlerCompletes

DisclosureSpec == DisclosureInit /\ [][DisclosureNext]_disclosureVars

\* C29: once the handlers of all the requests have completed, isOpen is
\* what the latest request asked for
C29_LatestRequestWins ==
    (requested >= 2 /\ inflight = {}) => isOpen = lastRequest


(***************************************************************************)
(* The Resizer: a drag of the handle of an item                            *)
(***************************************************************************)
\* the largest width or height
MaxSize == 2

\* the largest mouse coordinate
MaxPoint == 2

Sizes == 0..MaxSize

Points == 0..MaxPoint

\* the props min and max: not given (0), or given
Mins == {0, 1}

Maxs == {0, MaxSize}

\* Math.max
Max(a, b) == IF a >= b THEN a ELSE b

\* the size of an item along the split axis, and its other dimension
AxisOf(it) == IF horizontal THEN it.height ELSE it.width

OtherOf(it) == IF horizontal THEN it.width ELSE it.height

\* the reducer on UPDATE_CONTAINER_SIZE: the container takes the size, the
\* item takes the container's dimension across the split axis
updateContainerSize(width, height) ==
    /\ containerWidth' = width
    /\ containerHeight' = height
    /\ item' = IF horizontal
               THEN [width |-> width, height |-> item.height]
               ELSE [width |-> item.width, height |-> height]
    /\ UNCHANGED <<horizontal, min, max, dragging, startSize, startPoint, listener,
                   vars, rateVars, retryVars, pubsubVars, storeVars, disclosureVars>>

\* handleMouseDown(e), and the effect on [isDragging] of the render that
\* follows: it registers the handleMouseMove of this render on window
handleMouseDown(point) ==
    /\ ~dragging
    /\ dragging' = TRUE
    /\ startSize' = AxisOf(item)
    /\ startPoint' = point
    /\ listener' = [on |-> TRUE, item |-> item, containerWidth |-> containerWidth,
                    containerHeight |-> containerHeight]
    /\ UNCHANGED <<horizontal, containerWidth, containerHeight, item, min, max,
                   vars, rateVars, retryVars, pubsubVars, storeVars, disclosureVars>>

\* Math.min(Math.max(startSize + point - startPoint, min || 0),
\*          max || the container's dimension), with the container the
\* listener closes over
sizeAt(point) ==
    Min(Max(startSize + point - startPoint, min),
        IF max # 0 THEN max
        ELSE IF horizontal THEN listener.containerHeight ELSE listener.containerWidth)

\* handleMouseMove(e) of the registered listener, and the reducer on the
\* UPDATE_ITEM_SIZE it dispatches
handleMouseMove(point) ==
    /\ listener.on
    /\ startPoint # Undefined /\ dragging
    /\ item' = IF horizontal
               THEN [width |-> listener.item.width, height |-> sizeAt(point)]
               ELSE [width |-> sizeAt(point), height |-> listener.item.height]
    /\ UNCHANGED <<horizontal, containerWidth, containerHeight, min, max, dragging,
                   startSize, startPoint, listener,
                   vars, rateVars, retryVars, pubsubVars, storeVars, disclosureVars>>

\* handleMouseUp(), and the cleanup of the effect
handleMouseUp ==
    /\ listener.on
    /\ dragging' = FALSE
    /\ startPoint' = Undefined
    /\ startSize' = AxisOf(listener.item)
    /\ listener' = NoListener
    /\ UNCHANGED <<horizontal, containerWidth, containerHeight, item, min, max,
                   vars, rateVars, retryVars, pubsubVars, storeVars, disclosureVars>>

ResizerInit ==
    /\ \E h \in BOOLEAN, w \in Sizes, ht \in Sizes, size \in Sizes, lo \in Mins, hi \in Maxs :
          PaneRendered(h, w, ht,
                       IF h THEN [width |-> w, height |-> size]
                            ELSE [width |-> size, height |-> ht],
                       lo, hi)
    /\ FormatterIdle
    /\ LimiterConstructed([maxRequests |-> 0, interval |-> 0])
    /\ RetryConstructed([maxRetries |-> 0, delay |-> 0])
    /\ PubSubConstructed(FALSE)
    /\ StoreConstructed
    /\ Unmounted

ResizerNext ==
    \/ \E width \in Sizes, height \in Sizes : updateContainerSize(width, height)
    \/ \E point \in Points : handleMouseDown(point)
    \/ \E point \in Points : handleMouseMove(point)
    \/ handleMouseUp

ResizerSpec == ResizerInit /\ [][ResizerNext]_resizerVars

\* C30: the size a mouse move of a drag dispatches lies, along the split
\* axis, between min (0 when not given) and max (the dimension of the
\* container when not given), and the other dimension of the item stays as
\* it is
C30_DispatchedSizeInRange ==
    [][(\E point \in Points : handleMouseMove(point))
       => /\ min <= AxisOf(item')
          /\ AxisOf(item') <= (IF max # 0 THEN max
                               ELSE IF horizontal THEN containerHeight ELSE containerWidth)
          /\ OtherOf(item') = OtherOf(item)]_resizerVars

=============================================================================
